---------------------------- MODULE Spec2Model ----------------------------
(***************************************************************************)
(* browser-ctl extension: the service worker's WebSocket lifecycle and     *)
(* command dispatch (background.js), the page-side batch executor and the  *)
(* snapshot/reference assigner (content-script.js).                        *)
(*                                                                         *)
(* The module holds several state machines over one set of variables.      *)
(* Each specification moves the variables of its own part and leaves the   *)
(* others at their initial values:                                         *)
(*   SpecConn      WebSocket lifecycle, back-off, alarms, worker restarts  *)
(*   LiveConn      SpecConn with the fairness of alarms and of the bridge  *)
(*   SpecDispatch  commands received on the channel, executed with the     *)
(*                 time-out and retry policy and replied, while the channel*)
(*                 goes through a bounded number of lifecycle events       *)
(*   SpecBatch     one call of the page-side executor on a batch of        *)
(*                 operations, the page changing while it is suspended     *)
(*   SpecSnap      snapshots and reference look-ups on a document tree     *)
(*                 with open shadow roots that the page keeps changing     *)
(***************************************************************************)
EXTENDS Integers, Sequences, FiniteSets, TLC

(***************************************************************************)
(* Bounds of the model.                                                    *)
(***************************************************************************)
\* WebSocket objects the worker process may hold at once (live or closing)
MaxSockets == 2
\* commands (correlation ids) received in one run of SpecDispatch
MaxCmds == 1
\* lifecycle events (open, close, timers, alarms, kill) in one run of SpecDispatch
MaxConnEvents == 2
\* operations in a batch
MaxOps == 3
\* changes the page makes to itself around one batch
MaxMutations == 2
\* snapshot calls in one run
MaxSnaps == 2
\* changes the page makes to the document between snapshots
MaxDomChanges == 1
\* the timeout of the selector wait, in ticks of 50 ms
WaitTimeout == 5
\* the most ticks a pause's timer fires late
MaxLate == 1
\* changes of the page during one wait
MaxWaitChanges == 2
\* the time two animation frames take, ms: at 60 Hz, and on a busy page
FastFrames == 32
SlowFrames == 900
\* click commands on one page, and window.open calls of the page
MaxClicks == 2
MaxOpens == 2
\* commands that use the debugger in one run, and sessions the user cancels
MaxDbgCmds == 2
MaxCancels == 1
\* commands one client sends
MaxAsked == 2
\* commands in one batch
MaxBatchLen == 4
\* commands with an execution context in one run
MaxCtxCmds == 1
\* dialog commands and page dialogs in one run
MaxDialogSteps == 4
\* options of the <select>
MaxOptions == 2
\* select-option calls in one run
MaxSelects == 2
\* batches a caller sends in one run
MaxBatches == 3
\* check / uncheck calls in one run
MaxToggles == 3
\* changes the page makes to the checked state between the calls
MaxPageToggles == 1

(***************************************************************************)
(* Program constants.                                                      *)
(***************************************************************************)
MIN_RECONNECT_DELAY == 1000
MAX_RECONNECT_DELAY == 30000
\* ensureActionable: RETRY_DELAYS.length
RETRY_ATTEMPTS == 7
\* the 100 ms pause of the selector wait, in ticks of 50 ms
POLL_TICKS == 2
\* click.js, RETRY_DELAYS.length
CLICK_RETRY_ATTEMPTS == 7
\* ensureActionable(el, checks, timeoutMs = 3000)
ACTIONABLE_TIMEOUT_MS == 3000

VARIABLES
  \* ---- service worker process and WebSocket lifecycle (background.js) ----
  swAlive,         \* the service-worker process is running
  ws,              \* module variable ws: 0 is null, else a socket of Sockets
  sock,            \* readyState of each WebSocket object of the process
  reconnectDelay,  \* module variable reconnectDelay
  reconnectTimer,  \* _reconnectTimer: 0 none, else the delay it was armed with
  alarms,          \* chrome.alarms pending (they outlive the process)
  \* ---- observation of the lifecycle (history, not program state) ----
  nSched,          \* immediateReconnect calls since the last open or load
  lastSched,       \* delay the last immediateReconnect call scheduled with
  opened,          \* a socket has opened since the module was loaded
  failsBefore,     \* nSched at the moment of the last open
  prevDelay,       \* reconnectDelay before the last lifecycle event
  lastEv,          \* the last lifecycle event handled
  \* ---- command dispatch (background.js) ----
  budget,          \* lifecycle events left in a run of SpecDispatch
  cmd,             \* per id: the command received ({action, params.selector})
  pc,              \* per id: where dispatch / executeActionWithPolicy stands
  run,             \* per id: state of the 1st and 2nd handleAction invocation
  firstErr,        \* per id: the error the first attempt was settled with
  resp,            \* per id: the response dispatch returned
  wire,            \* per id: the replies sent with ws.send, in order
  timedOut,        \* per id: the attempt whose time-out timer fired (0: none)
  calls,           \* per id: handleAction invocations made for the command
  \* ---- the page a batch runs on ----
  page,            \* per element: present, visible, disabled, hasText
  marked,          \* the elements carrying the data-bctl-ref of the token used
  mutBudget,       \* page changes left
  \* ---- contentScriptHandler(commands) (content-script.js) ----
  nOps,            \* commands.length
  pos,             \* 1-based position of the loop in commands
  phase,           \* idle | sleeping | polling | checking | done
  cur,             \* the operation at pos, once the loop has taken it
  checkEl,         \* el of the branch: the node qs resolved before the check
  attempt,         \* ensureActionable: attempts made
  results,         \* the results array
  \* ---- observation of the batch (history, not program state) ----
  started,         \* positions whose operation the loop has begun
  verified,        \* nodes ensureActionable passed in the operation at pos
  touched,         \* nodes executeOp dispatched events to or wrote a value on
  executed,        \* executeOp was called for the operation at pos
  \* ---- the document a snapshot walks, and the last call's return value ----
  dom,             \* per node: parent, shadow, attached, visible, interactive, ref
  lastSnap,        \* {total, refs, lines} the last snapshot returned
  domBudget,       \* document changes left
  \* ---- observation of the references (history, not program state) ----
  gen,             \* snapshot calls made
  prevTokens,      \* tokens minted by the call before the last one
  fresh,           \* the document is as the last snapshot left it
  lookup,          \* the last reference look-up and its result
  lastAct,         \* what the last step on the document was
  query,           \* the last resolution and count of the selector [data-bctl-ref]
  \* ---- check / uncheck ----
  tgKind,          \* the target: "checkbox", "radio" or "aria"
  tgChecked,       \* el.checked, or aria-checked === "true"
  tgLog,           \* the calls so far: op, whether it clicked, what it returned
  tgDirty,         \* the page changed the state since the last call
  tgBudget,        \* changes the page may still make
  \* ---- doClick ----
  ckSel,           \* the selector of the click
  ckPhase,         \* "loop", "fallback" or "done"
  ckAttempt,       \* attempts of the actionability loop made so far
  ckLastReason,    \* lastReason, a set of phrases
  ckCovered,       \* another element covered the target at every attempt
  ckSteady,        \* the target was visible, enabled and stable at every attempt
  ckAttachFailed,  \* chrome.debugger.attach threw
  ckOutcome,       \* what doClick returned or threw
  ckActs,          \* the input delivered to the page, in order
  \* ---- batches of a caller that sends one command at a time ----
  bPc,             \* per batch: "unsent", "pending" or "replied"
  bPage,           \* per batch: its executeScript call: none | running | ended
  bTab,            \* per batch: the tab of its execution context
  bOverlap,        \* a page execution began in a context with one running
  \* ---- select-option ----
  soOptions,       \* el.options: a sequence of [value, text]
  soSelected,      \* el.selectedIndex + 1; 0 with nothing selected
  soCalls,         \* select-option calls made
  soLast,          \* the last call: its result, the events, the selection before
  \* ---- wait for a selector ----
  wNow,            \* Date.now() - start, in ticks of 50 ms
  wPhase,          \* "poll" (at the loop test), "sleep" or "done"
  wWake,           \* the tick at which the pause's timer fires
  wMatch,          \* the selector matches an element now
  wSince,          \* <<t>>: it has matched without a break since tick t
  wEver,           \* it matched at some instant before the timeout had elapsed
  wSamples,        \* the deepQueryOne calls made: [at, hit]
  wResult,         \* "", "found" or "timeout"
  wBudget,         \* changes the page may still make
  \* ---- the execution context of a command ----
  xActive,         \* the active tab of the current window
  xLog,            \* per command handled: the command and its injection
  \* ---- the page's dialog functions ----
  dWin,            \* window.alert/confirm/prompt: 0 the page's own, k handler k
  dHandlers,       \* per dialog command: its arguments and captured originals
  dLog,            \* per page dialog: its type, interception and return value
  dArmed,          \* dialog commands since the last page dialog
  \* ---- one run of an actionability loop ----
  lKind,           \* "ensureActionable" or "clickHandler"
  lChecks,         \* the checks asked for
  lPc,             \* "top" of the loop, "checks" of an attempt, "done"
  lAttempt,        \* attempts begun
  lNow,            \* ms since the loop started
  lTopNow,         \* lNow when the loop last went on to an attempt
  lSlept,          \* the pauses made, in order
  lLast,           \* what the checks of the latest attempt saw
  lSeen,           \* the checks that failed in some attempt
  lResult,         \* what the loop returned
  \* ---- window.open of one page under click commands ----
  oWin,            \* window.open: 0 the page's own, k the hook of click k
  oClick,          \* per click command: where it is, origOpen, capturedUrl
  oCalls,          \* the window.open calls of the page, in order
  oTabs,           \* the urls opened with chrome.tabs.create, in order
  \* ---- chrome.debugger under eval, upload and the click fallback ----
  gAttached,       \* per tab: 0, or the command whose attach is in force
  gCmd,            \* per command: action, tab, position, cause, detaches, reply
  gCancels,        \* times the user may still cancel a debugging session
  \* ---- one command through executeActionWithPolicy and runInPage ----
  rAction,         \* the command's action
  rPc,             \* "handler" (in runInPage), "failed" (it threw), "done"
  rCalls,          \* handleAction invocations made
  rAttempt,        \* runInPage: the loop variable
  rInj,            \* what each executeScript injection returned, in order
  rErr,            \* the error the last handler invocation threw
  rReply,          \* the reply
  \* ---- one batch command through dispatch and doBatch ----
  yN,              \* params.commands.length
  yFail,           \* the first operation that fails in the page, 0 for none
  yPc,             \* "start", "resolved", "running", "done"
  yTabs,           \* tab look-ups made
  yInjected,       \* executeScript started the content script
  yReply,          \* the reply dispatch returns
  \* ---- a client that asks for the capabilities and sends commands ----
  kCaps,           \* the actions the last capabilities reply listed
  kSent,           \* the actions of the commands sent, in order
  kReplies         \* how each of them ended

connVars == <<swAlive, ws, sock, reconnectDelay, reconnectTimer, alarms,
              nSched, lastSched, opened, failsBefore, prevDelay, lastEv>>

dispVars == <<budget, cmd, pc, run, firstErr, resp, wire, timedOut, calls>>

batchVars == <<page, marked, mutBudget, nOps, pos, phase, cur, checkEl,
               attempt, results, started, verified, touched, executed>>

snapVars == <<dom, lastSnap, domBudget, gen, prevTokens, fresh, lookup,
              lastAct, query>>

toggleVars == <<tgKind, tgChecked, tgLog, tgDirty, tgBudget>>
clickVars == <<ckSel, ckPhase, ckAttempt, ckLastReason, ckCovered, ckSteady,
               ckAttachFailed, ckOutcome, ckActs>>
serialVars == <<bPc, bPage, bTab, bOverlap>>
selectVars == <<soOptions, soSelected, soCalls, soLast>>
waitVars == <<wNow, wPhase, wWake, wMatch, wSince, wEver, wSamples, wResult,
              wBudget>>
ctxVars == <<xActive, xLog>>
dlgVars == <<dWin, dHandlers, dLog, dArmed>>
loopVars == <<lKind, lChecks, lPc, lAttempt, lNow, lTopNow, lSlept, lLast, lSeen,
              lResult>>
openVars == <<oWin, oClick, oCalls, oTabs>>
dbgVars == <<gAttached, gCmd, gCancels>>
runVars == <<rAction, rPc, rCalls, rAttempt, rInj, rErr, rReply>>
replyVars == <<yN, yFail, yPc, yTabs, yInjected, yReply>>
capVars == <<kCaps, kSent, kReplies>>
lastVars == <<loopVars, openVars, dbgVars, runVars, replyVars, capVars>>
laterVars == <<selectVars, waitVars, ctxVars, dlgVars, lastVars>>
auxVars == <<toggleVars, clickVars, serialVars, laterVars>>
pageVars == <<batchVars, snapVars, auxVars>>

vars == <<connVars, dispVars, pageVars>>

Sockets == 1..MaxSockets

Min(a, b) == IF a <= b THEN a ELSE b
Max(a, b) == IF a >= b THEN a ELSE b

(***************************************************************************)
(* readyState: CONNECTING (0) and OPEN (1) are "<= WebSocket.OPEN";        *)
(* CLOSING (2) is a socket whose closing handshake has started and whose   *)
(* close event has not been fired yet; "free" is no object (never created, *)
(* or CLOSED with its close event delivered).                              *)
(***************************************************************************)
ReadyStates == {"free", "connecting", "open", "closing"}

\* ws && ws.readyState <= WebSocket.OPEN
WsLive(w, sk) == w # 0 /\ sk[w] \in {"connecting", "open"}

\* ws && ws.readyState === WebSocket.OPEN
WsOpen(w, sk) == w # 0 /\ sk[w] = "open"

FreeSockets(sk) == {s \in Sockets : sk[s] = "free"}

(***************************************************************************)
(* The in-process state as a record, so that the handlers compose: a       *)
(* handler is an operator from the state before to the set of states after.*)
(***************************************************************************)
Proc(w, sk, rd, rt, al, n, ls, op, fb) ==
  [ws |-> w, sock |-> sk, reconnectDelay |-> rd, reconnectTimer |-> rt,
   alarms |-> al, nSched |-> n, lastSched |-> ls, opened |-> op,
   failsBefore |-> fb]

Cur == Proc(ws, sock, reconnectDelay, reconnectTimer, alarms, nSched, lastSched,
            opened, failsBefore)

\* The state of a process that has just started: let ws = null,
\* let reconnectDelay = 1000, let _reconnectTimer = null.
Fresh(al) ==
  Proc(0, [s \in Sockets |-> "free"], MIN_RECONNECT_DELAY, 0, al, 0, 0, FALSE, 0)

\* The history counter saturates: from the sixth call on the delay is the cap.
SchedCap == 7

\* alarm names
KeepaliveAlarm == "bctl-keepalive"
ReconnectAlarm == "bctl-reconnect"

\* connect(): returns when ws is CONNECTING or OPEN; else ws = new WebSocket.
\* The constructor takes the constant, well-formed WS_URL: it does not throw
\* (a refused connection is reported by the close event), so the catch
\* branch is not taken.
connect(p) ==
  IF WsLive(p.ws, p.sock)
    THEN {p}
    ELSE {[p EXCEPT !.ws = s, !.sock = [p.sock EXCEPT ![s] = "connecting"]]
            : s \in {t \in FreeSockets(p.sock) :
                       \A u \in FreeSockets(p.sock) : t <= u}}

\* immediateReconnect(): schedule with the delay in force, then double it.
NextDelayNoCap(d) == d * 2

NextDelay(d) == Min(d * 2, MAX_RECONNECT_DELAY)

immediateReconnect(p) ==
  [p EXCEPT !.reconnectDelay = NextDelay(p.reconnectDelay),
            !.reconnectTimer = p.reconnectDelay,
            !.alarms = p.alarms \cup {ReconnectAlarm},
            !.nSched = Min(p.nSched + 1, SchedCap),
            !.lastSched = p.reconnectDelay]

\* ws.onopen
onopenNoReset(p) ==
  [p EXCEPT !.nSched = 0, !.lastSched = 0, !.opened = TRUE,
            !.failsBefore = p.nSched]

onopen(p) ==
  [p EXCEPT !.reconnectDelay = MIN_RECONNECT_DELAY, !.nSched = 0, !.lastSched = 0,
            !.opened = TRUE, !.failsBefore = p.nSched]

\* ws.onclose: ws = null; immediateReconnect()
onclose(p) == immediateReconnect([p EXCEPT !.ws = 0])

\* Alarms the module creates when it is evaluated.
LoadAlarmsNone == {}

LoadAlarms == {KeepaliveAlarm}

\* Evaluation of the module in a fresh process: the lets, connect(), the
\* keepalive alarm, the first fastKeepalive timer.
Loaded(al) ==
  connect(Fresh(al \cup LoadAlarms))

\* chrome.alarms.onAlarm listener
\* !ws || ws.readyState > WebSocket.OPEN
KeepaliveNeedsConnect(p) == ~WsLive(p.ws, p.sock)

onAlarm(name, p) ==
  IF name = ReconnectAlarm THEN connect(p)
  ELSE IF name = KeepaliveAlarm /\ KeepaliveNeedsConnect(p) THEN connect(p)
  ELSE {p}

Install(p, ev) ==
  /\ ws' = p.ws
  /\ sock' = p.sock
  /\ reconnectDelay' = p.reconnectDelay
  /\ reconnectTimer' = p.reconnectTimer
  /\ alarms' = p.alarms
  /\ nSched' = p.nSched
  /\ lastSched' = p.lastSched
  /\ opened' = p.opened
  /\ failsBefore' = p.failsBefore
  /\ prevDelay' = reconnectDelay
  /\ lastEv' = ev

(***************************************************************************)
(* Actions of the lifecycle.                                               *)
(***************************************************************************)
\* The bridge accepts the connection: readyState becomes OPEN, onopen runs.
SocketOpen(s) ==
  /\ swAlive /\ sock[s] = "connecting"
  /\ Install(onopen([Cur EXCEPT !.sock = [sock EXCEPT ![s] = "open"]]), "open")
  /\ UNCHANGED swAlive

\* The bridge starts the closing handshake: readyState becomes CLOSING.
SocketClosing(s) ==
  /\ swAlive /\ sock[s] = "open"
  /\ Install([Cur EXCEPT !.sock = [sock EXCEPT ![s] = "closing"]], "closing")
  /\ UNCHANGED swAlive

\* The connection of socket s is closed (refused, lost, or handshake done):
\* readyState becomes CLOSED and its onclose handler runs in the same task.
SocketClose(s) ==
  /\ swAlive /\ sock[s] # "free"
  /\ Install(onclose([Cur EXCEPT !.sock = [sock EXCEPT ![s] = "free"]]), "close")
  /\ UNCHANGED swAlive

\* _reconnectTimer fires: connect()
ReconnectTimerFire ==
  /\ swAlive /\ reconnectTimer # 0
  /\ \E q \in connect([Cur EXCEPT !.reconnectTimer = 0]) : Install(q, "timer")
  /\ UNCHANGED swAlive

\* fastKeepalive(): every 5 s while the process lives
fastKeepalive ==
  /\ swAlive
  /\ KeepaliveNeedsConnect(Cur)
  /\ \E q \in connect(Cur) : Install(q, "fast")
  /\ UNCHANGED swAlive

\* An alarm fires. A one-shot alarm is removed; a dead worker is started
\* first (the module is evaluated), then the listener runs.
AlarmFire(name) ==
  /\ name \in alarms
  /\ LET al == IF name = ReconnectAlarm THEN alarms \ {name} ELSE alarms
         starts == IF swAlive THEN {[Cur EXCEPT !.alarms = al]} ELSE Loaded(al)
     IN \E p \in starts : \E q \in onAlarm(name, p) :
          Install(q, IF swAlive THEN "alarm" ELSE "load")
  /\ swAlive' = TRUE

\* chrome.runtime.onStartup / onInstalled start the worker: module, connect()
Startup ==
  /\ ~swAlive
  /\ \E p \in Loaded(alarms) : \E q \in connect(p) : Install(q, "load")
  /\ swAlive' = TRUE

\* The browser terminates the worker: module state, timers and sockets go;
\* no handler runs. Alarms stay.
Kill ==
  /\ swAlive
  /\ swAlive' = FALSE
  /\ Install(Fresh(alarms), "kill")

InitConn ==
  /\ swAlive = TRUE
  /\ \E p \in Loaded({}) :
       /\ ws = p.ws /\ sock = p.sock /\ reconnectDelay = p.reconnectDelay
       /\ reconnectTimer = p.reconnectTimer /\ alarms = p.alarms
       /\ nSched = p.nSched /\ lastSched = p.lastSched
       /\ opened = p.opened /\ failsBefore = p.failsBefore
  /\ prevDelay = MIN_RECONNECT_DELAY
  /\ lastEv = "load"

(***************************************************************************)
(* Command dispatch.                                                       *)
(*                                                                         *)
(* An error message is modelled by the set of the phrases the classifier   *)
(* and the retry test look for (lower-cased, as they compare) that occur   *)
(* in it: String.includes is membership.  A message that embeds the        *)
(* selector holds the phrases of its template and those of the selector.   *)
(***************************************************************************)
Cmds == 1..MaxCmds

NoResultPhrase == "content script returned no result"

Phrases == {"ref not found", "timeout", "no active tab", "no tab with id",
            "element not found", "index", "out of range", NoResultPhrase}

Includes(msg, ph) == ph \in msg

\* Selectors of the commands: a snapshot reference (e5), a plain CSS
\* selector (#btn), and the CSS selector `content script returned no result`
\* (five type selectors joined by descendant combinators).
SelRef   == [ref |-> TRUE,  ph |-> {}]
SelPlain == [ref |-> FALSE, ph |-> {}]
SelWords == [ref |-> FALSE, ph |-> {NoResultPhrase}]
Selectors == {SelRef, SelPlain, SelWords}

\* The commands of the runs: a click and a query of the retry set, an eval
\* and a wait outside it, and an action handleAction does not know.
CommandsIn ==
  {[action |-> "click", sel |-> SelPlain],
   [action |-> "text",  sel |-> SelWords],
   [action |-> "text",  sel |-> SelRef],
   [action |-> "eval",  sel |-> SelPlain],
   [action |-> "wait",  sel |-> SelPlain],
   [action |-> "bogus", sel |-> SelPlain]}

NoCmd == [action |-> "none", sel |-> SelPlain]

\* messages of the errors a handler ends with
MsgNoActiveTab     == {"no active tab"}                   \* activeTab
MsgNoTabWithId     == {"no tab with id"}                  \* getTabOrThrow
MsgNoResult        == {NoResultPhrase}                    \* runInPage
MsgRefNotFound     == {"ref not found"}                   \* qs, reference
MsgNotFound(sel)   == {"element not found"} \cup sel.ph   \* qs, no match
MsgOutOfRange(sel) == {"index", "out of range"} \cup sel.ph  \* qs, index
MsgNoMatchText(sel) == {"no element matching"} \cup sel.ph  \* qs, text filter
MsgNotActionable(sel) == sel.ph           \* "<op>: element not visible for <sel>"
MsgActTimeout(sel) == {"timeout"} \cup sel.ph  \* "<op>: actionability timeout ..."
MsgOther           == {}                  \* "Unknown action", eval errors, ...
MsgTimeout         == {"timeout"}         \* withTimeout: "[<action>:timeout] ..."

\* what qs throws for a selector
ResolveErrors(sel) ==
  IF sel.ref THEN {MsgRefNotFound}
  ELSE {MsgNotFound(sel), MsgNoMatchText(sel), MsgOutOfRange(sel)}

\* errors of activeTab / getTabOrThrow / executeScript
TabErrors == {MsgNoActiveTab, MsgNoTabWithId}

\* handleAction: the errors one invocation may end with, per action
HandlerErrors(c) ==
  CASE c.action = "click" -> TabErrors \cup ResolveErrors(c.sel)
                               \cup {MsgNotActionable(c.sel), MsgOther}
    [] c.action = "text"  -> TabErrors \cup ResolveErrors(c.sel) \cup {MsgNoResult}
    [] c.action = "eval"  -> TabErrors \cup {MsgOther}
    [] c.action = "wait"  -> TabErrors \cup {MsgTimeout, MsgNoResult}
    [] OTHER              -> {MsgOther}

\* handleAction: an unknown action throws, every other handler may succeed
HandlerMaySucceed(c) == c.action \in {"click", "text", "eval", "wait"}

\* isRetryableError(err)
isRetryableError(msg) ==
  \/ Includes(msg, "no active tab")
  \/ Includes(msg, "no tab with id")
  \/ Includes(msg, NoResultPhrase)

\* classifyActionError(action, err): <<code, retriable, hint>>
classifyActionErrorAsRetryable(action, msg) ==
  IF Includes(msg, "ref not found")
    THEN <<"STALE_REF", TRUE, "Element refs may be stale after UI updates.">>
  ELSE IF Includes(msg, "timeout")
    THEN <<"TIMEOUT", TRUE, "Retry the action or increase wait timeout.">>
  ELSE IF Includes(msg, "no active tab") \/ Includes(msg, "no tab with id")
    THEN <<"TAB_CONTEXT", TRUE, "Refresh tab context by running tabs/status and retry.">>
  ELSE IF Includes(msg, "element not found")
          \/ (Includes(msg, "index") /\ Includes(msg, "out of range"))
    THEN <<"SELECTOR", isRetryableError(msg),
           "Re-run snapshot/select and use a stable ref or selector.">>
  ELSE IF action = "upload" \/ action = "eval"
    THEN <<"DEBUGGER", isRetryableError(msg), "Close DevTools and retry.">>
  ELSE <<"ACTION_FAILED", isRetryableError(msg), "Check command params and retry.">>

classifyActionError(action, msg) ==
  IF Includes(msg, "ref not found")
    THEN <<"STALE_REF", TRUE, "Element refs may be stale after UI updates.">>
  ELSE IF Includes(msg, "timeout")
    THEN <<"TIMEOUT", TRUE, "Retry the action or increase wait timeout.">>
  ELSE IF Includes(msg, "no active tab") \/ Includes(msg, "no tab with id")
    THEN <<"TAB_CONTEXT", TRUE, "Refresh tab context by running tabs/status and retry.">>
  ELSE IF Includes(msg, "element not found")
          \/ (Includes(msg, "index") /\ Includes(msg, "out of range"))
    THEN <<"SELECTOR", FALSE,
           "Re-run snapshot/select and use a stable ref or selector.">>
  ELSE IF action = "upload" \/ action = "eval"
    THEN <<"DEBUGGER", FALSE, "Close DevTools and retry.">>
  ELSE <<"ACTION_FAILED", isRetryableError(msg), "Check command params and retry.">>

\* shouldRetryAction(action)
RetryActions == {"click", "hover", "type", "snapshot", "select", "text", "attr",
                 "count", "set-field", "submit-and-assert"}

shouldRetryAction(action) == action \in RetryActions

\* dispatch: the response of a success and of a failure
\* dispatch: the reply objects; keys are the properties of the object, code,
\* retriable and hint the values of a failure reply
NoResp == [success |-> FALSE, code |-> "none", retriable |-> FALSE,
           hint |-> "", keys |-> {}]
SuccessResp == [success |-> TRUE, code |-> "", retriable |-> FALSE,
                hint |-> "", keys |-> {"id", "success", "data"}]
FailureResp(action, msg) ==
  [success |-> FALSE, code |-> classifyActionError(action, msg)[1],
   retriable |-> classifyActionError(action, msg)[2],
   hint |-> classifyActionError(action, msg)[3],
   keys |-> {"id", "success", "error", "code", "retriable", "hint"}]

\* withTimeout: the promise of attempt a is settled once, by the first of
\* handler result and timer; a later event of the other finds it settled.
IsPending(id, a) == pc[id] = (IF a = 1 THEN "try1" ELSE "try2")

\* ws.onmessage after dispatch returned: send when ws is OPEN
SendsReply == WsOpen(ws, sock)

\* dispatch returns r; onmessage sends it on the socket ws refers to
Reply(id, r) ==
  /\ resp' = [resp EXCEPT ![id] = r]
  /\ wire' = [wire EXCEPT ![id] = IF SendsReply THEN Append(@, r) ELSE @]
  /\ pc' = [pc EXCEPT ![id] = "done"]

\* executeActionWithPolicy: attempt a of the command was settled with error msg
Failed(id, a, msg) ==
  IF a = 1 /\ shouldRetryAction(cmd[id].action) /\ isRetryableError(msg)
    THEN /\ pc' = [pc EXCEPT ![id] = "backoff"]
         /\ firstErr' = [firstErr EXCEPT ![id] = msg]
         /\ UNCHANGED <<resp, wire>>
    ELSE /\ Reply(id, FailureResp(cmd[id].action, msg))
         /\ firstErr' = [firstErr EXCEPT ![id] = IF a = 1 THEN msg ELSE @]

\* ws.onmessage on an OPEN socket of the process: JSON.parse, dispatch(cmd),
\* first handleAction invocation under withTimeout
Receive(id, s, c) ==
  /\ swAlive /\ sock[s] = "open" /\ pc[id] = "idle"
  /\ \A j \in Cmds : j < id => pc[j] # "idle"
  /\ cmd' = [cmd EXCEPT ![id] = c]
  /\ pc' = [pc EXCEPT ![id] = "try1"]
  /\ run' = [run EXCEPT ![id] = <<"running", "none">>]
  /\ calls' = [calls EXCEPT ![id] = 1]
  /\ UNCHANGED <<firstErr, resp, wire, timedOut, budget>>

\* the handler of attempt a resolves
HandlerSucceeds(id, a) ==
  /\ run[id][a] = "running" /\ HandlerMaySucceed(cmd[id])
  /\ run' = [run EXCEPT ![id][a] = "ended"]
  /\ IF IsPending(id, a)
       THEN Reply(id, SuccessResp) /\ UNCHANGED firstErr
       ELSE UNCHANGED <<pc, resp, wire, firstErr>>
  /\ UNCHANGED <<cmd, timedOut, budget, calls>>

\* the handler of attempt a rejects with an error
HandlerThrows(id, a, msg) ==
  /\ run[id][a] = "running"
  /\ run' = [run EXCEPT ![id][a] = "ended"]
  /\ IF IsPending(id, a)
       THEN Failed(id, a, msg)
       ELSE UNCHANGED <<pc, resp, wire, firstErr>>
  /\ UNCHANGED <<cmd, timedOut, budget, calls>>

\* withTimeout's timer fires after ACTION_TIMEOUT_MS with the handler running
TimerFires(id, a) ==
  /\ run[id][a] = "running" /\ IsPending(id, a)
  /\ cmd[id].action # "bogus"
  /\ timedOut' = [timedOut EXCEPT ![id] = a]
  /\ Failed(id, a, MsgTimeout)
  /\ UNCHANGED <<cmd, run, budget, calls>>

\* the 120 ms pause is over: second handleAction invocation under withTimeout
Retry(id) ==
  /\ pc[id] = "backoff"
  /\ pc' = [pc EXCEPT ![id] = "try2"]
  /\ run' = [run EXCEPT ![id][2] = "running"]
  /\ calls' = [calls EXCEPT ![id] = @ + 1]
  /\ UNCHANGED <<cmd, firstErr, resp, wire, timedOut, budget>>

\* the process is terminated: the commands in flight go with it
Lost(st) == IF st \in {"idle", "done"} THEN st ELSE "lost"

KillInFlight ==
  /\ pc' = [id \in Cmds |-> Lost(pc[id])]
  /\ run' = [id \in Cmds |-> <<"none", "none">>]
  /\ UNCHANGED <<cmd, firstErr, resp, wire, timedOut, calls>>

InitIdle ==
  /\ budget = MaxConnEvents
  /\ cmd = [id \in Cmds |-> NoCmd]
  /\ pc = [id \in Cmds |-> "idle"]
  /\ run = [id \in Cmds |-> <<"none", "none">>]
  /\ firstErr = [id \in Cmds |-> {}]
  /\ resp = [id \in Cmds |-> NoResp]
  /\ wire = [id \in Cmds |-> <<>>]
  /\ timedOut = [id \in Cmds |-> 0]
  /\ calls = [id \in Cmds |-> 0]

(***************************************************************************)
(* The page-side executor: contentScriptHandler(commands).                 *)
(*                                                                         *)
(* The page holds document.body and two elements, 1 and 2 in document     *)
(* order; the CSS selector of the operations matches the elements that are *)
(* present, the reference token of the operations is carried by the        *)
(* elements of `marked`.  The page changes only while the executor is      *)
(* suspended (before the call, and at the awaits of the sleep, of the      *)
(* selector poll and of ensureActionable).                                 *)
(***************************************************************************)
Els == {1, 2}

\* document.body
Body == 0

DocOrder == <<1, 2>>

Found(el) == [ok |-> TRUE, el |-> el, error |-> ""]
Thrown(msg) == [ok |-> FALSE, el |-> Body, error |-> msg]

\* document.querySelectorAll(selector), deepQueryAll: the present elements
Candidates(pg) == SelectSeq(DocOrder, LAMBDA e : pg[e].present)

\* qs: the candidates whose text contains the filter
Filtered(pg, c, tf) == IF tf THEN SelectSeq(c, LAMBDA e : pg[e].hasText) ELSE c

\* deepQueryOne(document, '[data-bctl-ref="eK"]')
RefHolders(pg, mk) == {e \in mk : pg[e].present}

\* qs(selector, index, textFilter); index is <<>> when undefined or null
qsNoWrap(pg, mk, sel, index, tf) ==
  IF sel = "" THEN Found(Body)
  ELSE IF sel = "ref"
    THEN IF RefHolders(pg, mk) = {}
           THEN Thrown("Ref not found")
           ELSE Found(CHOOSE e \in RefHolders(pg, mk) :
                        \A f \in RefHolders(pg, mk) : e <= f)
  ELSE LET c == Candidates(pg)
           f == Filtered(pg, c, tf)
           actual == IF index[1] < 0 THEN 0 - index[1] ELSE index[1]
       IN IF Len(c) = 0 THEN Thrown("Element not found")
          ELSE IF Len(f) = 0 THEN Thrown("No element matching")
          ELSE IF index = <<>> THEN Found(f[1])
          ELSE IF actual < 0 \/ actual >= Len(f)
            THEN Thrown("Index out of range")
            ELSE Found(f[actual + 1])

qs(pg, mk, sel, index, tf) ==
  IF sel = "" THEN Found(Body)
  ELSE IF sel = "ref"
    THEN IF RefHolders(pg, mk) = {}
           THEN Thrown("Ref not found")
           ELSE Found(CHOOSE e \in RefHolders(pg, mk) :
                        \A f \in RefHolders(pg, mk) : e <= f)
  ELSE LET c == Candidates(pg)
           f == Filtered(pg, c, tf)
           actual == IF index[1] < 0 THEN Len(f) + index[1] ELSE index[1]
       IN IF Len(c) = 0 THEN Thrown("Element not found")
          ELSE IF Len(f) = 0 THEN Thrown("No element matching")
          ELSE IF index = <<>> THEN Found(f[1])
          ELSE IF actual < 0 \/ actual >= Len(f)
            THEN Thrown("Index out of range")
            ELSE Found(f[actual + 1])

\* checkVisible(el): document.body is visible; an element that was removed
\* from the document has no offsetParent
checkVisible(pg, el) == IF el = Body THEN TRUE
                        ELSE pg[el].present /\ pg[el].visible

\* el.disabled
Disabled(pg, el) == IF el = Body THEN FALSE ELSE pg[el].disabled

\* the main loop's branches that call ensureActionable, and their checks
FullCheckOps == {"click", "dblclick", "check", "uncheck"}
PointerCheckOps == {"hover", "drag"}
FocusCheckOps == {"type", "focus"}
CheckedOps == FullCheckOps \cup PointerCheckOps \cup FocusCheckOps

ChecksOf(op) ==
  [visible |-> TRUE,
   stable |-> op \in FullCheckOps \cup PointerCheckOps,
   receivesEvents |-> op \in FullCheckOps \cup PointerCheckOps,
   enabled |-> op \in FullCheckOps \/ op = "type"]

\* ensureActionable, one attempt: every check asked for holds.  stableNow
\* and hitNow are what the two animation frames and the hit test give.
PassesUnchecked(pg, el, ck, stableNow, hitNow) == TRUE

Passes(pg, el, ck, stableNow, hitNow) ==
  /\ ck.visible => checkVisible(pg, el)
  /\ ck.enabled => ~Disabled(pg, el)
  /\ ck.stable => stableNow
  /\ ck.receivesEvents => hitNow

\* ensureActionable: the reason of a failure
Reason(pg, el, ck, hitNow) ==
  IF ck.visible /\ ~checkVisible(pg, el) THEN "element not visible"
  ELSE IF ck.enabled /\ Disabled(pg, el) THEN "element is disabled"
  ELSE IF ck.receivesEvents /\ ~hitNow
    THEN "element does not receive pointer events"
  ELSE "actionability timeout"

\* the operations of the runs; seconds: params.seconds is given
Op(op, sel, index, tf) ==
  [op |-> op, sel |-> sel, index |-> index, tf |-> tf, seconds |-> FALSE]

OpsIn ==
  {Op("click", "css", <<>>, FALSE), Op("click", "", <<>>, FALSE),
   Op("click", "ref", <<>>, FALSE), Op("click", "css", <<1>>, FALSE),
   Op("hover", "css", <<>>, FALSE),
   Op("type", "css", <<>>, FALSE), Op("type", "css", <<1>>, FALSE),
   Op("type", "css", <<>>, TRUE), Op("focus", "css", <<-1>>, FALSE),
   Op("input-text", "css", <<>>, FALSE), Op("select-option", "css", <<>>, FALSE),
   Op("text", "css", <<>>, FALSE), Op("text", "ref", <<>>, FALSE),
   Op("wait", "css", <<>>, FALSE), Op("wait", "", <<>>, FALSE),
   [Op("wait", "", <<>>, FALSE) EXCEPT !.seconds = TRUE],
   Op("hover", "css", <<-2>>, FALSE), Op("focus", "css", <<0>>, TRUE),
   Op("bogus", "css", <<>>, FALSE)}

NoOp == Op("none", "", <<>>, FALSE)

\* executeOp(op, params): the node the primitive resolves and acts on
ExecTarget(pg, mk, o) ==
  IF o.op \in {"type", "text", "select-option"}
    THEN qs(pg, mk, o.sel, <<>>, FALSE)
    ELSE qs(pg, mk, o.sel, o.index, o.tf)

\* the primitives that dispatch synthesized events or write a value
Synthesizes(op) ==
  op \in {"click", "dblclick", "check", "uncheck", "hover", "drag", "type",
          "input-text", "select-option", "press"}

\* results.push(r); `at` in a result is the position of the command whose
\* turn of the loop made it
PushedFirst(rs, r) == <<r>> \o rs

Pushed(rs, r) == Append(rs, r)

\* results.push({success: true, data}); the loop goes on with the next command
Push ==
  /\ results' = Pushed(results, [success |-> TRUE, error |-> "", at |-> pos])
  /\ pos' = pos + 1
  /\ phase' = "idle"

\* `break`: the loop is left
NoBreakTo(i, n) == i + 1

BreakTo(i, n) == n + 1

\* results.push({success: false, error}); break
Fail(msg) ==
  /\ results' = Pushed(results, [success |-> FALSE, error |-> msg, at |-> pos])
  /\ pos' = BreakTo(pos, nOps)
  /\ phase' = "idle"

\* the loop takes the command at pos
Take(o) ==
  /\ phase = "idle" /\ pos <= nOps
  /\ cur' = o
  /\ started' = started \cup {pos}
  /\ UNCHANGED <<page, marked, mutBudget, nOps>>

\* executeOp(op, params) of an interaction or a query; it may throw
Execute(o) ==
  LET r == ExecTarget(page, marked, o)
  IN /\ executed' = TRUE
     /\ IF r.ok
          THEN /\ touched' = IF Synthesizes(o.op) THEN {r.el} ELSE {}
               /\ Push
          ELSE /\ touched' = {}
               /\ Fail(r.error)

\* op === "input-text": resolve, then type character by character
InputText(o) ==
  /\ o.op = "input-text" /\ Take(o)
  /\ LET r == qs(page, marked, o.sel, o.index, o.tf)
     IN IF r.ok THEN touched' = {r.el} /\ Push
                ELSE touched' = {} /\ Fail(r.error)
  /\ executed' = FALSE /\ verified' = {}
  /\ UNCHANGED <<checkEl, attempt>>

\* op === "wait" with seconds: the executor sleeps
WaitSleep(o) ==
  /\ o.op = "wait" /\ o.seconds /\ Take(o)
  /\ phase' = "sleeping"
  /\ executed' = FALSE /\ verified' = {} /\ touched' = {}
  /\ UNCHANGED <<pos, results, checkEl, attempt>>

WakeUp ==
  /\ phase = "sleeping"
  /\ Push
  /\ UNCHANGED <<page, marked, mutBudget, nOps, cur, checkEl, attempt,
                 started, verified, touched, executed>>

\* op === "wait" with a selector: the executor polls deepQueryOne
WaitSelector(o) ==
  /\ o.op = "wait" /\ ~o.seconds /\ o.sel # "" /\ Take(o)
  /\ phase' = "polling"
  /\ executed' = FALSE /\ verified' = {} /\ touched' = {}
  /\ UNCHANGED <<pos, results, checkEl, attempt>>

PollFound ==
  /\ phase = "polling" /\ Len(Candidates(page)) > 0
  /\ Push
  /\ UNCHANGED <<page, marked, mutBudget, nOps, cur, checkEl, attempt,
                 started, verified, touched, executed>>

PollTimeout ==
  /\ phase = "polling" /\ Len(Candidates(page)) = 0
  /\ Fail("Timeout waiting for")
  /\ UNCHANGED <<page, marked, mutBudget, nOps, cur, checkEl, attempt,
                 started, verified, touched, executed>>

\* op === "wait" with neither: {waited: 0}
WaitNothing(o) ==
  /\ o.op = "wait" /\ ~o.seconds /\ o.sel = "" /\ Take(o)
  /\ Push
  /\ executed' = FALSE /\ verified' = {} /\ touched' = {}
  /\ UNCHANGED <<checkEl, attempt>>

\* the three branches with a check: el = qs(...), then await ensureActionable
BeginChecked(o) ==
  /\ o.op \in CheckedOps /\ Take(o)
  /\ LET r == qs(page, marked, o.sel, o.index, o.tf)
     IN IF r.ok
          THEN /\ checkEl' = r.el /\ attempt' = 0 /\ phase' = "checking"
               /\ UNCHANGED <<pos, results>>
          ELSE /\ Fail(r.error)
               /\ UNCHANGED <<checkEl, attempt>>
  /\ executed' = FALSE /\ verified' = {} /\ touched' = {}

\* ensureActionable: one attempt of the loop; on a pass the branch goes on
\* with executeOp in the same turn
CheckAttempt(stableNow, hitNow) ==
  /\ phase = "checking" /\ attempt < RETRY_ATTEMPTS
  /\ attempt' = attempt + 1
  /\ IF Passes(page, checkEl, ChecksOf(cur.op), stableNow, hitNow)
       THEN /\ verified' = {[el |-> checkEl,
                             visible |-> checkVisible(page, checkEl),
                             disabled |-> Disabled(page, checkEl)]}
            /\ Execute(cur)
       ELSE UNCHANGED <<verified, touched, executed, pos, results, phase>>
  /\ UNCHANGED <<page, marked, mutBudget, nOps, cur, checkEl, started>>

\* ensureActionable: the attempts are used up, or timeoutMs has passed
\* after a failed attempt: {pass: false, reason}
CheckGivesUp(hitNow) ==
  /\ phase = "checking" /\ attempt >= 1
  /\ Fail(Reason(page, checkEl, ChecksOf(cur.op), hitNow))
  /\ UNCHANGED <<page, marked, mutBudget, nOps, cur, checkEl, attempt,
                 started, verified, touched, executed>>

\* every other op: executeOp without a check
Other(o) ==
  /\ o.op \notin CheckedOps \cup {"input-text", "wait"} /\ Take(o)
  /\ IF o.op \in {"text", "select-option"}
       THEN Execute(o)
       ELSE /\ executed' = TRUE /\ touched' = {}
            /\ Fail("Unknown content operation")
  /\ verified' = {}
  /\ UNCHANGED <<checkEl, attempt>>

\* select-option: no option has the value
OptionNotFound(o) ==
  /\ o.op = "select-option" /\ Take(o)
  /\ ExecTarget(page, marked, o).ok
  /\ Fail("Option not found")
  /\ executed' = TRUE /\ verified' = {} /\ touched' = {}
  /\ UNCHANGED <<checkEl, attempt>>

\* the loop is over: return results
Return ==
  /\ phase = "idle" /\ pos > nOps
  /\ phase' = "done"
  /\ UNCHANGED <<page, marked, mutBudget, nOps, pos, cur, checkEl, attempt,
                 results, started, verified, touched, executed>>

\* the page changes an element or moves the reference attribute
Suspended == IF phase = "idle" THEN pos = 1 /\ results = <<>>
             ELSE phase \in {"sleeping", "polling", "checking"}

Flip(e, f) == [page EXCEPT ![e][f] = ~@]

PageMutates ==
  /\ Suspended /\ mutBudget > 0
  /\ mutBudget' = mutBudget - 1
  /\ \E e \in Els :
       \/ \E f \in {"present", "visible", "disabled", "hasText"} :
            page' = Flip(e, f) /\ marked' = marked
       \/ page' = page /\ marked' = (marked \cup {e}) \ (marked \cap {e})
  /\ UNCHANGED <<nOps, pos, phase, cur, checkEl, attempt, results, started,
                 verified, touched, executed>>

\* a page with every element present, visible, enabled, without the filter
\* text, the first one carrying the reference; a call with n commands
InitBatchOf(n) ==
  /\ page = [e \in Els |-> [present |-> TRUE, visible |-> TRUE,
                            disabled |-> FALSE, hasText |-> FALSE]]
  /\ marked = {1}
  /\ mutBudget = MaxMutations
  /\ nOps = n /\ pos = 1 /\ phase = "idle"
  /\ cur = NoOp /\ checkEl = Body /\ attempt = 0
  /\ results = <<>> /\ started = {}
  /\ verified = {} /\ touched = {} /\ executed = FALSE

(***************************************************************************)
(* The snapshot / reference assigner: executeOp case "snapshot", and the   *)
(* reference look-up of qs.                                                *)
(*                                                                         *)
(* The document is a tree of three nodes, document.body (node 1) and two   *)
(* elements under it, in any of the shapes such a tree can have; a node is *)
(* a light child of its parent or a child of its parent's open shadow      *)
(* root; siblings are in the order of their numbers.  A node that is not   *)
(* attached is out of the document with its subtree.  The token eK is the  *)
(* number K; dom[n].ref is the set holding the token of the node's         *)
(* data-bctl-ref attribute, empty without the attribute.                   *)
(***************************************************************************)
Nodes == {1, 2, 3}

\* document.body
BodyNode == 1

NodeOrder == <<1, 2, 3>>

\* el.children (shadow FALSE) or el.shadowRoot.children (shadow TRUE)
Children(d, el, shadow) ==
  SelectSeq(NodeOrder, LAMBDA c : /\ c # BodyNode /\ d[c].parent = el
                                  /\ d[c].shadow = shadow /\ d[c].attached)

RECURSIVE InDocument(_, _)
InDocument(d, n) ==
  IF n = BodyNode THEN TRUE ELSE d[n].attached /\ InDocument(d, d[n].parent)

\* the node is in the light tree of the document, under no shadow root
RECURSIVE InLightDocument(_, _)
InLightDocument(d, n) ==
  IF n = BodyNode THEN TRUE
  ELSE d[n].attached /\ ~d[n].shadow /\ InLightDocument(d, d[n].parent)

\* clearRefs(document): every marker of the document goes, shadow roots included
clearRefsLightOnly(d) ==
  [n \in Nodes |-> IF InLightDocument(d, n) THEN [d[n] EXCEPT !.ref = {}] ELSE d[n]]

clearRefs(d) ==
  [n \in Nodes |-> IF InDocument(d, n) THEN [d[n] EXCEPT !.ref = {}] ELSE d[n]]

\* checkVisible(el) in the walk
NodeVisible(d, el) == IF el = BodyNode THEN TRUE ELSE d[el].visible

\* walk(el): st is <<the document, refIndex, lines, refs>> as the walk has
\* left them so far
RECURSIVE walk(_, _, _), walkEach(_, _, _)
walk(st, el, onlyInteractive) ==
  IF ~NodeVisible(st.dom, el) THEN st
  ELSE LET own == IF onlyInteractive /\ ~st.dom[el].interactive THEN st
                  ELSE [dom |-> [st.dom EXCEPT ![el].ref = {st.refIndex}],
                        lines |-> Append(st.lines, st.refIndex),
                        refs |-> (st.refIndex :> el) @@ st.refs,
                        refIndex |-> st.refIndex + 1]
           light == walkEach(own, Children(st.dom, el, FALSE), onlyInteractive)
       IN walkEach(light, Children(st.dom, el, TRUE), onlyInteractive)

walkEach(st, els, onlyInteractive) ==
  IF els = <<>> THEN st
  ELSE walkEach(walk(st, Head(els), onlyInteractive), Tail(els), onlyInteractive)

\* root.querySelectorAll("*") in document order, for the roots' light trees
RECURSIVE LightTree(_, _)
LightTree(d, roots) ==
  IF roots = <<>> THEN <<>>
  ELSE <<Head(roots)>> \o LightTree(d, Children(d, Head(roots), FALSE))
                       \o LightTree(d, Tail(roots))

\* deepQueryOne(root, '[data-bctl-ref="eK"]'): <<node>> or <<>> for null
RECURSIVE deepQueryOne(_, _, _), deepQueryShadows(_, _, _)
deepQueryOne(d, roots, k) ==
  LET els == LightTree(d, roots)
      found == SelectSeq(els, LAMBDA e : d[e].ref = {k})
  IN IF found # <<>> THEN <<found[1]>> ELSE deepQueryShadows(d, els, k)

deepQueryShadows(d, els, k) ==
  IF els = <<>> THEN <<>>
  ELSE LET inner == Children(d, Head(els), TRUE)
           found == IF inner = <<>> THEN <<>> ELSE deepQueryOne(d, inner, k)
       IN IF found # <<>> THEN found ELSE deepQueryShadows(d, Tail(els), k)

NoLookup == [tok |-> 0, made |-> FALSE, stale |-> FALSE, res |-> <<>>]

NoQuery == [made |-> FALSE, candidates |-> <<>>, count |-> 0]

\* let refIndex = 0: the counter is local to the call
StartIndexCarried(last) == last

StartIndex(last) == 0

\* executeOp("snapshot", {interactive}): clear, walk document.body, return
Snapshot(onlyInteractive) ==
  /\ gen < MaxSnaps
  /\ LET st == walk([dom |-> clearRefs(dom),
                     refIndex |-> StartIndex(lastSnap.total),
                     lines |-> <<>>, refs |-> <<>>], BodyNode, onlyInteractive)
     IN /\ dom' = st.dom
        /\ lastSnap' = [total |-> st.refIndex, refs |-> st.refs,
                        lines |-> st.lines, onlyInteractive |-> onlyInteractive]
  /\ lastAct' = IF gen >= 1 /\ fresh /\ lastSnap.onlyInteractive = onlyInteractive
                  THEN "resnapshot" ELSE "snapshot"
  /\ query' = NoQuery
  /\ prevTokens' = DOMAIN lastSnap.refs
  /\ gen' = gen + 1
  /\ fresh' = TRUE
  /\ lookup' = NoLookup
  /\ UNCHANGED domBudget

\* qs("eK"): the caller resolves a token; it throws "Ref not found" on null
Lookup(k) ==
  /\ gen >= 1
  /\ lookup' = [tok |-> k, made |-> TRUE, stale |-> k \in prevTokens,
                res |-> deepQueryOne(dom, <<BodyNode>>, k)]
  /\ lastAct' = "lookup"
  /\ query' = NoQuery
  /\ UNCHANGED <<dom, lastSnap, prevTokens, gen, fresh, domBudget>>

\* the CSS selector [data-bctl-ref] matches the nodes that carry a marker
Matches(d, n) == d[n].ref # {}

\* root.querySelectorAll(selector): the matches of the roots' light trees
querySelectorAll(d, roots) ==
  SelectSeq(LightTree(d, roots), LAMBDA e : Matches(d, e))

\* deepQueryAll(root, selector): the light matches, then those of every
\* open shadow root below, in the order of their hosts
RECURSIVE deepQueryAll(_, _), deepQueryAllShadows(_, _)
deepQueryAll(d, roots) ==
  querySelectorAll(d, roots) \o deepQueryAllShadows(d, LightTree(d, roots))

deepQueryAllShadows(d, els) ==
  IF els = <<>> THEN <<>>
  ELSE LET inner == Children(d, Head(els), TRUE)
       IN (IF inner = <<>> THEN <<>> ELSE deepQueryAll(d, inner))
            \o deepQueryAllShadows(d, Tail(els))

\* qs, CSS branch: the light matches; the deep search only when there are none
qsCandidates(d) ==
  LET light == querySelectorAll(d, <<BodyNode>>)
  IN IF Len(light) = 0 THEN deepQueryAll(d, <<BodyNode>>) ELSE light

\* qs("[data-bctl-ref]", index) and executeOp("count") on the same document
QueryMarked ==
  /\ gen >= 1
  /\ query' = [made |-> TRUE, candidates |-> qsCandidates(dom),
               count |-> Len(deepQueryAll(dom, <<BodyNode>>))]
  /\ lastAct' = "query"
  /\ lookup' = NoLookup
  /\ UNCHANGED <<dom, lastSnap, prevTokens, gen, fresh, domBudget>>

\* what a primitive other than snapshot does to the document by itself:
\* "events" (click, hover, check, scroll, select-option, drag, press, wait,
\* the queries, type into a form control) changes no node; "setText" (type
\* into an element without a value property: el.textContent = text)
\* removes the light children of its target
opEffectStripsRef(d, kind, el) ==
  [n \in Nodes |-> IF n = el THEN [d[n] EXCEPT !.ref = {}] ELSE d[n]]

opEffect(d, kind, el) ==
  [n \in Nodes |->
     IF kind = "setText" /\ n # BodyNode /\ d[n].parent = el /\ ~d[n].shadow
       THEN [d[n] EXCEPT !.attached = FALSE] ELSE d[n]]

\* executeOp of a primitive other than snapshot on a node of the document
Operate(kind, el) ==
  /\ InDocument(dom, el)
  /\ dom' = opEffect(dom, kind, el)
  /\ fresh' = (fresh /\ dom' = dom)
  /\ lastAct' = "op"
  /\ lookup' = NoLookup
  /\ query' = NoQuery
  /\ UNCHANGED <<lastSnap, prevTokens, gen, domBudget>>

\* the page hides or shows a node, changes what makes it interactive, or
\* removes it from / puts it back into its parent
DomChange(n, f) ==
  /\ domBudget > 0 /\ domBudget' = domBudget - 1
  /\ ~(n = BodyNode /\ f \in {"visible", "attached"})
  /\ dom' = [dom EXCEPT ![n][f] = ~@]
  /\ fresh' = FALSE
  /\ lookup' = NoLookup
  /\ lastAct' = "change"
  /\ query' = NoQuery
  /\ UNCHANGED <<lastSnap, prevTokens, gen>>

\* a document of the given shape, everything attached and visible, no
\* marker, every node but the body interactive; no snapshot taken yet
InitDomOf(par, sh) ==
  /\ dom = [n \in Nodes |->
              [parent |-> IF n = BodyNode THEN BodyNode ELSE par[n],
               shadow |-> IF n = BodyNode THEN FALSE ELSE sh[n],
               attached |-> TRUE, visible |-> TRUE,
               interactive |-> n # BodyNode, ref |-> {}]]
  /\ gen = 0 /\ prevTokens = {} /\ fresh = FALSE
  /\ lastSnap = [total |-> 0, refs |-> <<>>, lines |-> <<>>,
                 onlyInteractive |-> TRUE]
  /\ lookup = NoLookup
  /\ lastAct = "load"
  /\ query = NoQuery
  /\ domBudget = MaxDomChanges

(***************************************************************************)
(* check / uncheck: executeOp case "check" / "uncheck" on one target, a    *)
(* checkbox, a radio button or an ARIA checkbox / switch.                  *)
(***************************************************************************)
ToggleKinds == {"checkbox", "radio", "aria"}

\* el.click(): the activation toggles a checkbox and the aria-checked of an
\* ARIA widget; a radio button is checked by it and is never unchecked
clickEffect(kind, checked) == IF kind = "radio" THEN TRUE ELSE ~checked

\* case "check" / "uncheck": click when the state differs, return the state
CheckOp(op) ==
  /\ Len(tgLog) < MaxToggles
  /\ LET shouldCheck == (op = "check")
         clicks == (tgChecked # shouldCheck)
         after == IF clicks THEN clickEffect(tgKind, tgChecked) ELSE tgChecked
     IN /\ tgChecked' = after
        /\ tgLog' = Append(tgLog, [op |-> op, clicked |-> clicks,
                                   checked |-> after, dirty |-> tgDirty])
  /\ tgDirty' = FALSE
  /\ UNCHANGED <<tgKind, tgBudget>>

\* the page or the user changes the state between two calls
PageToggles ==
  /\ tgBudget > 0 /\ tgBudget' = tgBudget - 1
  /\ tgChecked' = ~tgChecked
  /\ tgDirty' = TRUE
  /\ UNCHANGED <<tgKind, tgLog>>

InitToggleOf(kind, checked) ==
  /\ tgKind = kind /\ tgChecked = checked
  /\ tgLog = <<>> /\ tgDirty = FALSE /\ tgBudget = MaxPageToggles

InitNoToggle == InitToggleOf("checkbox", FALSE)

(***************************************************************************)
(* The click command: doClick, the injected clickHandler and clickViaCDP.  *)
(* Error messages are sets of phrases, as in the dispatch section.         *)
(***************************************************************************)
\* a CSS selector with the word `obscured` in it (.obscured-button)
SelObscured == [ref |-> FALSE, ph |-> {"obscured"}]

\* hitTest(el, cx, cy); at is what document.elementFromPoint(cx, cy) gives:
\* "target" (the element, an ancestor or a descendant), "cover" (another
\* element) or "none"
hitTestPassesAll(at) == [pass |-> TRUE, reason |-> {}]

hitTest(at) ==
  IF at = "none" THEN [pass |-> FALSE, reason |-> {"no element at coordinates"}]
  ELSE IF at = "target" THEN [pass |-> TRUE, reason |-> {}]
  ELSE [pass |-> FALSE, reason |-> {"obscured", "obscured by <tag"}]

\* clickHandler, one attempt: the reason of the first check that fails,
\* <<>> when every check passes
AttemptReason(vis, dis, stable, at) ==
  IF ~vis THEN <<{"element not visible"}>>
  ELSE IF dis THEN <<{"element is disabled"}>>
  ELSE IF ~stable THEN <<{"element is not stable"}>>
  ELSE IF ~hitTest(at).pass
    THEN <<{"element does not receive pointer events"} \cup hitTest(at).reason>>
  ELSE <<>>

NoOutcome == [done |-> FALSE, success |-> FALSE, method |-> "", error |-> {}]
Clicked(method) == [done |-> TRUE, success |-> TRUE, method |-> method, error |-> {}]
ClickThrows(msg) == [done |-> TRUE, success |-> FALSE, method |-> "", error |-> msg]

\* clickHandler: qs throws; the result has no coordinates, doClick throws it
ClickResolveFails ==
  /\ ckPhase = "loop" /\ ckAttempt = 0
  /\ ckPhase' = "done"
  /\ \E msg \in ResolveErrors(ckSel) : ckOutcome' = ClickThrows(msg)
  /\ UNCHANGED <<ckSel, ckAttempt, ckLastReason, ckCovered, ckSteady,
                 ckAttachFailed, ckActs>>

\* the events dispatched on the element, then el.click()
PageSequence == <<"pointerdown", "mousedown", "pointerup", "mouseup", "click">>

\* Input.dispatchMouseEvent: the commands sent before one throws
CdpSequence(sends) == SubSeq(<<"mousePressed", "mouseReleased">>, 1, sends)

\* clickHandler: one turn of the actionability loop; on a pass the events
\* are dispatched and doClick returns
ClickAttempt(vis, dis, stable, at) ==
  /\ ckPhase = "loop" /\ ckAttempt < CLICK_RETRY_ATTEMPTS
  /\ ckAttempt' = ckAttempt + 1
  /\ ckCovered' = (ckCovered /\ at = "cover")
  /\ ckSteady' = (ckSteady /\ vis /\ ~dis /\ stable)
  /\ LET r == AttemptReason(vis, dis, stable, at)
     IN IF r = <<>>
          THEN /\ ckOutcome' = Clicked("page") /\ ckPhase' = "done"
               /\ ckActs' = ckActs \o PageSequence
               /\ UNCHANGED ckLastReason
          ELSE /\ ckLastReason' = r[1]
               /\ UNCHANGED <<ckOutcome, ckPhase, ckActs>>
  /\ UNCHANGED <<ckSel, ckAttachFailed>>

\* `click: actionability check failed for "<selector>": <lastReason>`
ExhaustedError == {"actionability check failed"} \cup ckSel.ph \cup ckLastReason

\* clickHandler: all retries exhausted; doClick goes to the fallback when
\* the error text includes "obscured" and throws the error otherwise
ClickExhausted ==
  /\ ckPhase = "loop" /\ ckAttempt = CLICK_RETRY_ATTEMPTS
  /\ IF Includes(ExhaustedError, "obscured")
       THEN ckPhase' = "fallback" /\ UNCHANGED ckOutcome
       ELSE ckPhase' = "done" /\ ckOutcome' = ClickThrows(ExhaustedError)
  /\ UNCHANGED <<ckSel, ckAttempt, ckLastReason, ckCovered, ckSteady,
                 ckAttachFailed, ckActs>>

\* clickViaCDP inside doClick's try: attach, two mouse events, detach; an
\* error of the fallback is caught and the original error is thrown.
\* sends is the number of mouse events the debugger delivers.
ClickFallback(attaches, sends) ==
  /\ ckPhase = "fallback"
  /\ ckPhase' = "done"
  /\ ckAttachFailed' = ~attaches
  /\ ckOutcome' = IF attaches /\ sends = 2 THEN Clicked("cdp")
                  ELSE ClickThrows(ExhaustedError)
  /\ ckActs' = IF attaches THEN ckActs \o CdpSequence(sends) ELSE ckActs
  /\ UNCHANGED <<ckSel, ckAttempt, ckLastReason, ckCovered, ckSteady>>

InitClickOf(sel) ==
  /\ ckSel = sel /\ ckPhase = "loop" /\ ckAttempt = 0 /\ ckLastReason = {}
  /\ ckCovered = TRUE /\ ckSteady = TRUE /\ ckAttachFailed = FALSE
  /\ ckOutcome = NoOutcome /\ ckActs = <<>>

InitNoClick == InitClickOf(SelPlain)

(***************************************************************************)
(* Batches in a row: ws.onmessage, dispatch under withTimeout and doBatch, *)
(* for a caller that sends a command only when every earlier one has been  *)
(* replied.  The execution context of a batch is its tab (one world).      *)
(***************************************************************************)
Batches == 1..MaxBatches
Tabs == {1, 2}

\* the page executions in progress in the context of tab t
RunningIn(t) == {j \in Batches : bPage[j] = "running" /\ bTab[j] = t}

\* ws.onmessage -> dispatch -> withTimeout(handleAction) -> doBatch:
\* chrome.scripting.executeScript starts contentScriptHandler in the tab
BatchArrives(id, t) ==
  /\ bPc[id] = "unsent"
  /\ \A j \in Batches : j < id => bPc[j] = "replied"
  /\ bPc' = [bPc EXCEPT ![id] = "pending"]
  /\ bPage' = [bPage EXCEPT ![id] = "running"]
  /\ bTab' = [bTab EXCEPT ![id] = t]
  /\ bOverlap' = (bOverlap \/ RunningIn(t) # {})

\* contentScriptHandler returns; the reply is sent unless withTimeout has
\* settled the command already
BatchReturns(id) ==
  /\ bPage[id] = "running"
  /\ bPage' = [bPage EXCEPT ![id] = "ended"]
  /\ bPc' = [bPc EXCEPT ![id] = "replied"]
  /\ UNCHANGED <<bTab, bOverlap>>

\* withTimeout: the timer rejects after ACTION_TIMEOUT_MS; the failure is
\* replied, the executeScript call is left running
BatchTimesOut(id) ==
  /\ bPc[id] = "pending" /\ bPage[id] = "running"
  /\ bPc' = [bPc EXCEPT ![id] = "replied"]
  /\ UNCHANGED <<bPage, bTab, bOverlap>>

InitSerial ==
  /\ bPc = [id \in Batches |-> "unsent"]
  /\ bPage = [id \in Batches |-> "none"]
  /\ bTab = [id \in Batches |-> 1]
  /\ bOverlap = FALSE

(***************************************************************************)
(* select-option: executeOp case "select-option" on one <select>.          *)
(***************************************************************************)
OptionValues == {"a", "b"}
OptionTexts == {"x", "y"}
Options == [value : OptionValues, text : OptionTexts]

\* the options the loop test accepts: opt.text.trim() === value with
\* byText, opt.value === value without
OptionMatches(opt, value, byText) ==
  IF byText THEN opt.text = value ELSE opt.value = value

\* for (const opt of el.options) ... break: the position of the option the
\* loop stops at, 0 when it ends without one
LastMatch(opts, value, byText) ==
  LET hits == {i \in 1..Len(opts) : OptionMatches(opts[i], value, byText)}
  IN IF hits = {} THEN 0 ELSE CHOOSE i \in hits : \A j \in hits : j <= i

FirstMatch(opts, value, byText) ==
  LET hits == {i \in 1..Len(opts) : OptionMatches(opts[i], value, byText)}
  IN IF hits = {} THEN 0 ELSE CHOOSE i \in hits : \A j \in hits : i <= j

\* el.value = v: the first option with that value becomes the selected one
SetValue(opts, v) ==
  LET hits == {i \in 1..Len(opts) : opts[i].value = v}
  IN IF hits = {} THEN 0 ELSE CHOOSE i \in hits : \A j \in hits : i <= j

NoSelect == [made |-> FALSE, ok |-> FALSE, available |-> <<>>, events |-> <<>>,
             before |-> 0, value |-> "", byText |-> FALSE]

\* case "select-option" with params.value and params.byText
SelectOption(value, byText) ==
  /\ soCalls < MaxSelects /\ soCalls' = soCalls + 1
  /\ LET m == FirstMatch(soOptions, value, byText)
     IN IF m = 0
          THEN /\ soSelected' = soSelected
               /\ soLast' = [made |-> TRUE, ok |-> FALSE, available |-> soOptions,
                             events |-> <<>>, before |-> soSelected,
                             value |-> value, byText |-> byText]
          ELSE /\ soSelected' = SetValue(soOptions, soOptions[m].value)
               /\ soLast' = [made |-> TRUE, ok |-> TRUE, available |-> <<>>,
                             events |-> <<"change", "input">>,
                             before |-> soSelected,
                             value |-> value, byText |-> byText]
  /\ UNCHANGED soOptions

\* a <select> with the given options, the first one selected
InitSelectOf(opts) ==
  /\ soOptions = opts
  /\ soSelected = IF opts = <<>> THEN 0 ELSE 1
  /\ soCalls = 0 /\ soLast = NoSelect

InitNoSelect == InitSelectOf(<<>>)

(***************************************************************************)
(* wait for a selector: the polling loop of the main loop's wait branch.   *)
(* Time is counted in ticks of 50 ms from `start`.                         *)
(***************************************************************************)
\* while (Date.now() - start < timeout): the loop test fails
ExpiredAfter(now, timeout) == now > timeout

Expired(now, timeout) == now >= timeout

\* one turn of the loop: the test, deepQueryOne, and the 100 ms pause, whose
\* timer may fire late
WaitSample(late) ==
  /\ wPhase = "poll"
  /\ IF Expired(wNow, WaitTimeout)
       THEN /\ wPhase' = "done" /\ wResult' = "timeout"
            /\ UNCHANGED <<wSamples, wWake>>
       ELSE /\ wSamples' = Append(wSamples, [at |-> wNow, hit |-> wMatch])
            /\ IF wMatch
                 THEN wPhase' = "done" /\ wResult' = "found" /\ UNCHANGED wWake
                 ELSE /\ wPhase' = "sleep" /\ wWake' = wNow + POLL_TICKS + late
                      /\ UNCHANGED wResult
  /\ UNCHANGED <<wNow, wMatch, wSince, wEver, wBudget>>

\* 50 ms pass during the pause; at wWake the loop goes on
WaitTick ==
  /\ wPhase = "sleep"
  /\ wNow' = wNow + 1
  /\ wPhase' = IF wNow + 1 >= wWake THEN "poll" ELSE "sleep"
  /\ wEver' = (wEver \/ (wMatch /\ wNow + 1 < WaitTimeout))
  /\ UNCHANGED <<wWake, wMatch, wSince, wSamples, wResult, wBudget>>

\* the page adds or removes the element the selector matches
WaitPageChanges ==
  /\ wPhase # "done" /\ wBudget > 0 /\ wBudget' = wBudget - 1
  /\ wMatch' = ~wMatch
  /\ wSince' = IF wMatch THEN <<>> ELSE <<wNow>>
  /\ wEver' = (wEver \/ (~wMatch /\ wNow < WaitTimeout))
  /\ UNCHANGED <<wNow, wPhase, wWake, wSamples, wResult>>

InitWaitOf(match) ==
  /\ wNow = 0 /\ wPhase = "poll" /\ wWake = 0
  /\ wMatch = match /\ wSince = IF match THEN <<0>> ELSE <<>>
  /\ wEver = match
  /\ wSamples = <<>> /\ wResult = "" /\ wBudget = MaxWaitChanges

InitNoWait == InitWaitOf(FALSE)

(***************************************************************************)
(* The execution context: dispatch, extractExecutionContext,               *)
(* stripExecutionContext, activeTab, and the injections of runInPage,      *)
(* doBatch and doClick.  A command's params are its operation keys plus    *)
(* the context keys it names, embedded in __context or at the top level;   *)
(* an optional value is <<>> or <<v>>.                                     *)
(***************************************************************************)
OpenTabs == {1, 2}
ContextKeys == {"__context", "sessionId", "tabId", "windowId", "world"}

CtxParams(action, embTab, topTab, embWorld, topWorld) ==
  [action |-> action, embTab |-> embTab, topTab |-> topTab,
   embWorld |-> embWorld, topWorld |-> topWorld,
   keys |-> {"selector"}
            \cup (IF embTab # <<>> \/ embWorld # <<>> THEN {"__context"} ELSE {})
            \cup (IF topTab # <<>> THEN {"tabId"} ELSE {})
            \cup (IF topWorld # <<>> THEN {"world"} ELSE {})]

CtxCommands ==
  {CtxParams(a, et, tt, ew, tw) :
     a \in {"click", "text", "batch"}, et \in {<<>>, <<2>>},
     tt \in {<<>>, <<1>>, <<3>>}, ew \in {<<>>, <<"MAIN">>},
     tw \in {<<>>, <<"isolated">>}}

\* extractExecutionContext(params): embedded ?? top-level ?? default
extractExecutionContext(params) ==
  LET worldRaw == IF params.embWorld # <<>> THEN params.embWorld[1]
                  ELSE IF params.topWorld # <<>> THEN params.topWorld[1]
                  ELSE "ISOLATED"
  IN [tabId |-> IF params.embTab # <<>> THEN params.embTab ELSE params.topTab,
      world |-> IF worldRaw \in {"MAIN", "main"} THEN "MAIN" ELSE "ISOLATED"]

\* stripExecutionContext(params): the keys left
stripExecutionContext(params) == params.keys \ ContextKeys

\* activeTab(context): <<tab>>, or <<>> when getTabOrThrow throws
activeTab(context, active) ==
  IF context.tabId # <<>>
    THEN IF context.tabId[1] \in OpenTabs THEN context.tabId ELSE <<>>
    ELSE <<active>>

\* doClick(params): `const tab = await activeTab()`, world: "MAIN"
ClickTarget(params, ctx, active) ==
  [tab |-> activeTab([tabId |-> <<>>], active), world |-> "MAIN"]

\* runInPage / doBatch: activeTab(context), world: context.world
PageTarget(params, ctx, active) ==
  [tab |-> activeTab(ctx, active), world |-> ctx.world]

\* dispatch(cmd) up to chrome.scripting.executeScript
HandleWithContext(params) ==
  /\ Len(xLog) < MaxCtxCmds
  /\ LET ctx == extractExecutionContext(params)
         t == IF params.action = "click" THEN ClickTarget(params, ctx, xActive)
              ELSE PageTarget(params, ctx, xActive)
     IN xLog' = Append(xLog, [params |-> params, ctx |-> ctx,
                              injected |-> t.tab # <<>>, tab |-> t.tab,
                              world |-> t.world,
                              passed |-> stripExecutionContext(params)])
  /\ UNCHANGED xActive

\* the user activates another tab
TabActivated(t) ==
  /\ t # xActive /\ Len(xLog) < MaxCtxCmds
  /\ xActive' = t
  /\ UNCHANGED xLog

InitCtx == xActive = 1 /\ xLog = <<>>

(***************************************************************************)
(* Dialog handling: doDialog's injected function and the overrides it      *)
(* installs.  A window function is 0 (the page's original) or the number   *)
(* of the dialog command whose closure it is.                              *)
(***************************************************************************)
DialogTypes == {"alert", "confirm", "prompt"}
DialogTexts == {"", "yes"}
Originals == [t \in DialogTypes |-> 0]

\* restore(): window.alert = origAlert; ... (the values captured on arming)
restore(h) == dHandlers[h].orig

\* the value the override returns to the page
Returned(h, type) ==
  IF type = "alert" THEN "undefined"
  ELSE IF type = "confirm"
    THEN (IF dHandlers[h].accept THEN "true" ELSE "false")
  ELSE IF dHandlers[h].accept
    THEN (IF dHandlers[h].text # "" THEN dHandlers[h].text ELSE "default")
  ELSE "null"

\* doDialog(params): capture the current functions, install the overrides
doDialog(accept, text) ==
  /\ Len(dHandlers) + Len(dLog) < MaxDialogSteps
  /\ dHandlers' = Append(dHandlers, [accept |-> accept, text |-> text, orig |-> dWin])
  /\ dWin' = [t \in DialogTypes |-> Len(dHandlers) + 1]
  /\ dArmed' = dArmed + 1
  /\ UNCHANGED dLog

\* the page calls window.alert / confirm / prompt
PageDialog(type) ==
  /\ Len(dHandlers) + Len(dLog) < MaxDialogSteps
  /\ LET h == dWin[type]
     IN IF h = 0
          THEN /\ dLog' = Append(dLog, [type |-> type, intercepted |-> FALSE,
                                        returned |-> "native", armed |-> dArmed])
               /\ UNCHANGED dWin
          ELSE /\ dLog' = Append(dLog, [type |-> type, intercepted |-> TRUE,
                                        returned |-> Returned(h, type), armed |-> dArmed])
               /\ dWin' = restore(h)
  /\ dArmed' = 0
  /\ UNCHANGED dHandlers

InitNoDialog == dWin = Originals /\ dHandlers = <<>> /\ dLog = <<>> /\ dArmed = 0

(***************************************************************************)
(* The actionability loops: ensureActionable of the content script and the *)
(* retry loop of clickHandler, one run on one element.  Time is in ms.     *)
(* The element's state at an attempt is the attempt's input: vis           *)
(* (checkVisible), dis (el.disabled), stable (the two animation frames     *)
(* found the box unmoved), hit (hitTest passed); frames is the time the    *)
(* two animation frames took.                                              *)
(***************************************************************************)
RETRY_DELAYS == <<0, 20, 100, 100, 500, 500, 500>>
CheckNames == <<"visible", "enabled", "stable", "receivesEvents">>
AllChecks == [visible |-> TRUE, stable |-> TRUE, receivesEvents |-> TRUE,
              enabled |-> TRUE]

\* one attempt: the check at which it `continue`s, "none" when it goes through
FirstFailing(ck, vis, dis, stable, hit) ==
  IF ck.visible /\ ~vis THEN "visible"
  ELSE IF ck.enabled /\ dis THEN "enabled"
  ELSE IF ck.stable /\ ~stable THEN "stable"
  ELSE IF ck.receivesEvents /\ ~hit THEN "receivesEvents"
  ELSE "none"

\* ensureActionable, "Build failure reason": the checks are made once more
\* on the element as it is now; the check the reason names, "timeout" for
\* "actionability timeout"
BuiltReason(ck, vis, dis, hit) ==
  IF ck.visible /\ ~vis THEN "visible"
  ELSE IF ck.enabled /\ dis THEN "enabled"
  ELSE IF ck.receivesEvents /\ ~hit THEN "receivesEvents"
  ELSE "timeout"

\* if (Date.now() - start > timeoutMs) break; clickHandler has no such test
TimedOutNever(kind, att, now) == FALSE

TimedOut(kind, att, now) ==
  kind = "ensureActionable" /\ att > 0 /\ now > ACTIONABLE_TIMEOUT_MS

NoLast == [vis |-> FALSE, dis |-> FALSE, stable |-> FALSE, hit |-> FALSE,
           failed |-> "none"]
NoLoopResult == [done |-> FALSE, pass |-> FALSE, names |-> "none"]

\* the head of the loop: the timeout test of attempts after the first, then
\* the pause RETRY_DELAYS[attempt]
LoopSleeps ==
  /\ lPc = "top" /\ lAttempt < Len(RETRY_DELAYS)
  /\ ~TimedOut(lKind, lAttempt, lNow)
  /\ lTopNow' = lNow
  /\ lNow' = lNow + RETRY_DELAYS[lAttempt + 1]
  /\ lSlept' = Append(lSlept, RETRY_DELAYS[lAttempt + 1])
  /\ lAttempt' = lAttempt + 1
  /\ lPc' = "checks"
  /\ UNCHANGED <<lKind, lChecks, lLast, lSeen, lResult>>

\* the checks of one attempt; the stability check waits two frames
LoopChecks(vis, dis, stable, hit, frames) ==
  /\ lPc = "checks"
  /\ LET failed == FirstFailing(lChecks, vis, dis, stable, hit)
         waited == lChecks.stable /\ failed \notin {"visible", "enabled"}
     IN /\ lNow' = IF waited THEN lNow + frames ELSE lNow
        /\ lLast' = [vis |-> vis, dis |-> dis, stable |-> stable, hit |-> hit,
                     failed |-> failed]
        /\ IF failed = "none"
             THEN /\ lResult' = [done |-> TRUE, pass |-> TRUE, names |-> "none"]
                  /\ lPc' = "done"
                  /\ UNCHANGED lSeen
             ELSE /\ lSeen' = lSeen \cup {failed}
                  /\ lPc' = "top"
                  /\ UNCHANGED lResult
  /\ UNCHANGED <<lKind, lChecks, lAttempt, lTopNow, lSlept>>

\* the loop is left without a pass: ensureActionable builds the reason from
\* the element as it is now, clickHandler returns lastReason
LoopFails(vis, dis, hit) ==
  /\ lPc = "top"
  /\ lAttempt = Len(RETRY_DELAYS) \/ TimedOut(lKind, lAttempt, lNow)
  /\ lResult' = [done |-> TRUE, pass |-> FALSE,
                 names |-> IF lKind = "clickHandler" THEN lLast.failed
                           ELSE BuiltReason(lChecks, vis, dis, hit)]
  /\ lPc' = "done"
  /\ UNCHANGED <<lKind, lChecks, lAttempt, lNow, lTopNow, lSlept, lLast, lSeen>>

InitLoopOf(kind, ck) ==
  /\ lKind = kind /\ lChecks = ck /\ lPc = "top" /\ lAttempt = 0
  /\ lNow = 0 /\ lTopNow = 0 /\ lSlept = <<>> /\ lLast = NoLast /\ lSeen = {}
  /\ lResult = NoLoopResult

InitNoLoop == InitLoopOf("clickHandler", AllChecks)

(***************************************************************************)
(* window.open under click commands on one page: the hook of clickHandler, *)
(* doClick's chrome.tabs.create, and the click of the batch executor.      *)
(***************************************************************************)
Clicks == 1..MaxClicks
\* the urls a page opens: two absolute http(s) urls and a relative one
Urls == {[http |-> TRUE, id |-> "a"], [http |-> TRUE, id |-> "b"],
         [http |-> FALSE, id |-> "rel"]}

InFlight == {k \in Clicks : oClick[k].pc \in {"hooked", "dispatching"}}

\* the hook: if (url && typeof url === "string" && url.startsWith("http"))
\* capturedUrl = url; return null
Captured(old, url) == IF url.http THEN <<url>> ELSE old

\* clickHandler, checks passed: origOpen = window.open; window.open = hook;
\* the events are dispatched and the handler waits 50 ms
ClickHooks(k) ==
  /\ oClick[k].pc = "idle"
  /\ oClick' = [oClick EXCEPT ![k] = [pc |-> "hooked", origOpen |-> oWin,
                                      capturedUrl |-> <<>>]]
  /\ oWin' = k
  /\ UNCHANGED <<oCalls, oTabs>>

\* finally { window.open = origOpen }; return {success, total, capturedUrl};
\* doClick: if (result.capturedUrl) chrome.tabs.create({url, active: true})
ClickReturns(k) ==
  /\ oClick[k].pc = "hooked"
  /\ oWin' = oClick[k].origOpen
  /\ oClick' = [oClick EXCEPT ![k].pc = "done"]
  /\ oTabs' = oTabs \o oClick[k].capturedUrl
  /\ UNCHANGED oCalls

\* the batch executor's click: executeOp -> dispatchClickEvents(el)
BatchClickBegins(k) ==
  /\ oClick[k].pc = "idle"
  /\ oClick' = [oClick EXCEPT ![k].pc = "dispatching"]
  /\ UNCHANGED <<oWin, oCalls, oTabs>>

BatchClickEnds(k) ==
  /\ oClick[k].pc = "dispatching"
  /\ oClick' = [oClick EXCEPT ![k].pc = "done"]
  /\ UNCHANGED <<oWin, oCalls, oTabs>>

\* a listener of the page calls window.open(url)
PageOpens(url) ==
  /\ Len(oCalls) < MaxOpens
  /\ oCalls' = Append(oCalls, [url |-> url, during |-> InFlight,
                               original |-> oWin = 0])
  /\ IF oWin = 0
       THEN UNCHANGED oClick
       ELSE oClick' = [oClick EXCEPT
                         ![oWin].capturedUrl = Captured(@, url)]
  /\ UNCHANGED <<oWin, oTabs>>

InitNoOpen ==
  /\ oWin = 0 /\ oCalls = <<>> /\ oTabs = <<>>
  /\ oClick = [k \in Clicks |-> [pc |-> "idle", origOpen |-> 0,
                                  capturedUrl |-> <<>>]]

(***************************************************************************)
(* chrome.debugger: evalViaDebugger, doUpload and clickViaCDP, each        *)
(* attach / sendCommand ... / finally detach, and the reply dispatch       *)
(* makes of the outcome.                                                   *)
(***************************************************************************)
DbgCmds == 1..MaxDbgCmds
DbgTabs == {1, 2}
DbgActions == {"eval", "upload", "click"}

MsgCannotAttach == {"cannot attach debugger"}   \* "<action>: cannot attach debugger ..."
MsgObscured == {"actionability check failed", "obscured"}  \* doClick's original error

NoDbgCmd == [action |-> "none", tab |-> 1, pc |-> "idle", cause |-> "none",
             attached |-> FALSE, detaches |-> 0, reply |-> NoResp]

\* what a handler that never reaches attach ends with: a missing parameter
\* (doEval, doUpload), an exception of the evaluated code on the <script>
\* path (doEval)
EarlyCauses(action) ==
  IF action = "eval" THEN {"missing", "thrown"}
  ELSE IF action = "upload" THEN {"missing"}
  ELSE {}

\* what the try block after attach ends with
LateCauses(action) ==
  IF action = "eval" THEN {"ok", "protocol", "thrown"}
  ELSE IF action = "upload" THEN {"ok", "protocol", "notfound", "rejected"}
  ELSE {"ok", "protocol"}

\* the error message of a handler that ended with the cause
CauseMsg(action, cause) ==
  IF action = "click" THEN MsgObscured
  ELSE IF cause = "attach" THEN MsgCannotAttach
  ELSE IF cause = "notfound" THEN {"element not found"}
  ELSE MsgOther

DbgReply(action, cause) ==
  IF cause = "ok" THEN SuccessResp ELSE FailureResp(action, CauseMsg(action, cause))

\* the reply of the command stays the first one made (withTimeout)
Settle(old, new) == IF old = NoResp THEN new ELSE old

\* finally { try { await chrome.debugger.detach({tabId}) } catch (_) {} }
finallyDetachNever(att, tab) == att

finallyDetach(att, tab) == [att EXCEPT ![tab] = 0]

\* a command arrives and its handler ends before any attach
DbgEndsEarly(c, action, tab, cause) ==
  /\ gCmd[c].pc = "idle" /\ cause \in EarlyCauses(action)
  /\ gCmd' = [gCmd EXCEPT ![c] = [NoDbgCmd EXCEPT !.action = action, !.tab = tab,
                 !.pc = "done", !.cause = cause, !.reply = DbgReply(action, cause)]]
  /\ UNCHANGED <<gAttached, gCancels>>

\* chrome.debugger.attach({tabId}, "1.3"): it throws when a debugger is
\* attached to the tab already (ours, or DevTools: devtools)
DbgAttach(c, action, tab, devtools) ==
  /\ gCmd[c].pc = "idle"
  /\ IF gAttached[tab] = 0 /\ ~devtools
       THEN /\ gAttached' = [gAttached EXCEPT ![tab] = c]
            /\ gCmd' = [gCmd EXCEPT ![c] = [NoDbgCmd EXCEPT !.action = action,
                           !.tab = tab, !.pc = "attached", !.attached = TRUE]]
       ELSE /\ gCmd' = [gCmd EXCEPT ![c] = [NoDbgCmd EXCEPT !.action = action,
                           !.tab = tab, !.pc = "done", !.cause = "attach",
                           !.reply = DbgReply(action, "attach")]]
            /\ UNCHANGED gAttached
  /\ UNCHANGED gCancels

\* the try block ends, by return or by throw; finally detaches
DbgFinishes(c, cause) ==
  /\ gCmd[c].pc = "attached" /\ cause \in LateCauses(gCmd[c].action)
  /\ gAttached' = finallyDetach(gAttached, gCmd[c].tab)
  /\ gCmd' = [gCmd EXCEPT ![c].pc = "done", ![c].cause = cause,
                          ![c].detaches = @ + 1,
                          ![c].reply = Settle(@, DbgReply(gCmd[c].action, cause))]
  /\ UNCHANGED gCancels

\* withTimeout: the timer settles the command while the handler goes on
DbgTimesOut(c) ==
  /\ gCmd[c].pc = "attached" /\ gCmd[c].reply = NoResp
  /\ gCmd' = [gCmd EXCEPT ![c].reply = FailureResp(gCmd[c].action, MsgTimeout)]
  /\ UNCHANGED <<gAttached, gCancels>>

\* the user cancels the session in the browser's debugging bar
DbgCancelled(tab) ==
  /\ gCancels > 0 /\ gAttached[tab] # 0
  /\ gCancels' = gCancels - 1
  /\ gAttached' = [gAttached EXCEPT ![tab] = 0]
  /\ UNCHANGED gCmd

InitNoDbg ==
  /\ gAttached = [t \in DbgTabs |-> 0]
  /\ gCmd = [c \in DbgCmds |-> NoDbgCmd]
  /\ gCancels = MaxCancels

(***************************************************************************)
(* One page command: executeActionWithPolicy around handleAction ->         *)
(* runInPage, whose own loop injects the content script up to twice.       *)
(***************************************************************************)
\* actions routed to runInPage: two of the auto-retry set, two outside it
RunActions == {"hover", "text", "dblclick", "check"}

\* what one executeScript call gives: no result list (null, or empty), a
\* result that succeeded, or a failed result with its error message
MsgSelNoResult == {"element not found", "no result"}   \* `Element not found: [title="no result"]`
Returns == {[kind |-> "none", msg |-> {}], [kind |-> "ok", msg |-> {}],
            [kind |-> "error", msg |-> MsgOther],
            [kind |-> "error", msg |-> MsgRefNotFound],
            [kind |-> "error", msg |-> MsgTimeout],
            [kind |-> "error", msg |-> MsgSelNoResult]}

\* e.message?.includes("no result")
IncludesNoResult(msg) == Includes(msg, "no result") \/ Includes(msg, NoResultPhrase)

\* runInPage, the loop: does the turn `continue`?
Continues(att, ret) ==
  att = 0 /\ (ret.kind = "none" \/ (ret.kind = "error" /\ IncludesNoResult(ret.msg)))

\* the error runInPage throws for a return it does not continue on
ThrownFor(ret) == IF ret.kind = "none" THEN MsgNoResult ELSE ret.msg

\* executeActionWithPolicy's catch: handleAction is invoked once more
ReinvokesNever(action, made, msg) == FALSE

Reinvokes(action, made, msg) ==
  made = 1 /\ shouldRetryAction(action) /\ isRetryableError(msg)

\* one turn of runInPage's loop: executeScript, then return, continue or throw
RunInjects(ret) ==
  /\ rPc = "handler"
  /\ rInj' = Append(rInj, ret)
  /\ IF ret.kind = "ok"
       THEN rPc' = "done" /\ rReply' = SuccessResp /\ UNCHANGED <<rAttempt, rErr>>
       ELSE IF Continues(rAttempt, ret)
         THEN rAttempt' = rAttempt + 1 /\ UNCHANGED <<rPc, rReply, rErr>>
         ELSE rPc' = "failed" /\ rErr' = ThrownFor(ret) /\ UNCHANGED <<rAttempt, rReply>>
  /\ UNCHANGED <<rAction, rCalls>>

\* runInPage: activeTab / getTabOrThrow throws before any injection
RunTabFails(msg) ==
  /\ rPc = "handler" /\ rAttempt = 0 /\ msg \in TabErrors
  /\ rPc' = "failed" /\ rErr' = msg
  /\ UNCHANGED <<rAction, rCalls, rAttempt, rInj, rReply>>

\* executeActionWithPolicy's catch, then dispatch's
RunCaught ==
  /\ rPc = "failed"
  /\ IF Reinvokes(rAction, rCalls, rErr)
       THEN /\ rPc' = "handler" /\ rCalls' = rCalls + 1 /\ rAttempt' = 0
            /\ UNCHANGED rReply
       ELSE /\ rPc' = "done" /\ rReply' = FailureResp(rAction, rErr)
            /\ UNCHANGED <<rCalls, rAttempt>>
  /\ UNCHANGED <<rAction, rInj, rErr>>

InitRunOf(action) ==
  /\ rAction = action /\ rPc = "handler" /\ rCalls = 1 /\ rAttempt = 0
  /\ rInj = <<>> /\ rErr = {} /\ rReply = NoResp

InitNoRun == InitRunOf("hover")

(***************************************************************************)
(* One batch command: dispatch -> withTimeout(handleAction) -> doBatch ->   *)
(* contentScriptHandler.  A result list is the sequence of the results'    *)
(* success flags.                                                          *)
(***************************************************************************)
\* contentScriptHandler: one result per command up to the first failure
ResultList(n, fail) ==
  [i \in 1..(IF fail = 0 THEN n ELSE fail) |-> i # fail]

NoBatchReply == [made |-> FALSE, success |-> FALSE, results |-> <<>>,
                 code |-> "", cause |-> "none"]

\* dispatch: {id, success: true, data: {results: arr, __context}}
BatchDataFailsWithOps(arr) ==
  [made |-> TRUE, success |-> \A i \in 1..Len(arr) : arr[i], results |-> arr,
   code |-> "", cause |-> "none"]

BatchData(arr) ==
  [made |-> TRUE, success |-> TRUE, results |-> arr, code |-> "", cause |-> "none"]

\* dispatch's catch: the classified failure
BatchFailure(msg, cause) ==
  [made |-> TRUE, success |-> FALSE, results |-> <<>>,
   code |-> classifyActionError("batch", msg)[1], cause |-> cause]

\* withTimeout settles once: the first reply stands
FirstReply(old, new) == IF old.made THEN old ELSE new

\* doBatch: if (!commands.length) return {results: []}
BatchEmpty ==
  /\ yPc = "start" /\ yN = 0
  /\ yPc' = "done" /\ yReply' = BatchData(<<>>)
  /\ UNCHANGED <<yN, yFail, yTabs, yInjected>>

\* activeTab(context), getTabOrThrow(tab.id)
BatchResolvesTab(ok, msg) ==
  /\ yPc = "start" /\ yN > 0 /\ msg \in TabErrors
  /\ yTabs' = yTabs + 1
  /\ IF ok THEN yPc' = "resolved" /\ UNCHANGED yReply
           ELSE yPc' = "done" /\ yReply' = BatchFailure(msg, "tab")
  /\ UNCHANGED <<yN, yFail, yInjected>>

\* chrome.scripting.executeScript: it rejects (the page cannot be scripted),
\* or the content script starts
BatchInjected(ok) ==
  /\ yPc = "resolved"
  /\ yInjected' = ok
  /\ IF ok THEN yPc' = "running" /\ UNCHANGED yReply
           ELSE /\ yPc' = "done"
                /\ yReply' = FirstReply(yReply, BatchFailure(MsgOther, "inject"))
  /\ UNCHANGED <<yN, yFail, yTabs>>

\* executeScript resolves: results[0]?.result is the list, or nothing
BatchScriptReturns(list) ==
  /\ yPc = "running"
  /\ yPc' = "done"
  /\ yReply' = FirstReply(yReply,
                  IF list THEN BatchData(ResultList(yN, yFail))
                  ELSE BatchFailure(MsgNoResult, "noresult"))
  /\ UNCHANGED <<yN, yFail, yTabs, yInjected>>

\* withTimeout: ACTION_TIMEOUT_MS passed before doBatch ended
BatchReplyTimesOut ==
  /\ yPc \in {"resolved", "running"} /\ ~yReply.made
  /\ yReply' = BatchFailure(MsgTimeout, "timeout")
  /\ UNCHANGED <<yN, yFail, yPc, yTabs, yInjected>>

InitReplyOf(n, fail) ==
  /\ yN = n /\ yFail = fail /\ yPc = "start" /\ yTabs = 0
  /\ yInjected = FALSE /\ yReply = NoBatchReply

InitNoReply == InitReplyOf(0, 0)

(***************************************************************************)
(* The action tables: what capabilities lists, what handleAction routes,   *)
(* and what the content script can execute.                                *)
(***************************************************************************)
SUPPORTED_ACTIONS ==
  {"navigate", "back", "forward", "reload",
   "click", "hover", "type", "press",
   "text", "html", "attr", "select", "count", "status",
   "assert-url", "assert-field-value",
   "eval",
   "tabs", "tab", "new-tab", "close-tab",
   "screenshot", "download",
   "wait", "scroll", "select-option", "set-field", "submit-and-assert",
   "upload", "dialog", "drag", "snapshot",
   "dblclick", "focus", "check", "uncheck", "input-text",
   "is-visible", "get-value",
   "batch",
   "capabilities"}

\* handleAction's cases that call a do* handler or answer in place
DirectActions ==
  {"navigate", "back", "forward", "reload", "click", "press", "status",
   "eval", "tabs", "tab", "new-tab", "close-tab", "screenshot", "download",
   "wait", "upload", "dialog", "batch", "capabilities"}

\* handleAction's cases that call runInPage(action, ...)
PageActions ==
  {"hover", "type", "text", "html", "attr", "select", "count",
   "assert-url", "assert-field-value", "scroll", "select-option",
   "set-field", "submit-and-assert", "drag", "snapshot", "dblclick",
   "focus", "check", "uncheck", "input-text", "is-visible", "get-value"}

\* executeOp's cases
ExecuteOpCases ==
  {"click", "hover", "type", "press", "text", "html", "attr", "select",
   "count", "extractUrl", "scroll", "select-option", "drag", "dblclick",
   "focus", "check", "uncheck", "is-visible", "get-value", "snapshot"}

\* operations contentScriptHandler performs itself, without executeOp
InlineOps == {"input-text", "wait"}

\* action names a client may send; the last two are in no table
ActionNames == SUPPORTED_ACTIONS \cup ExecuteOpCases \cup {"assert-text", "bogus"}

\* how a command with this action ends: "handled" when a handler or a page
\* operation ran (whatever it then answered)
handleAction(action) ==
  IF action \in DirectActions THEN "handled"
  ELSE IF action \in PageActions
    THEN IF action \in InlineOps \cup ExecuteOpCases
           THEN "handled" ELSE "Unknown content operation"
    ELSE "Unknown action"

\* a command is sent and replied
CommandSent(action) ==
  /\ Len(kSent) < MaxAsked
  /\ kSent' = Append(kSent, action)
  /\ kReplies' = Append(kReplies, handleAction(action))
  /\ kCaps' = IF action = "capabilities" THEN SUPPORTED_ACTIONS ELSE kCaps

InitNoCap == kCaps = {} /\ kSent = <<>> /\ kReplies = <<>>

InitNoLast ==
  InitNoLoop /\ InitNoOpen /\ InitNoDbg /\ InitNoRun /\ InitNoReply /\ InitNoCap

InitNoLater == InitNoSelect /\ InitNoWait /\ InitCtx /\ InitNoDialog /\ InitNoLast

InitNoAux == InitNoToggle /\ InitNoClick /\ InitSerial /\ InitNoLater

\* no document of interest: every node a light child of the body
InitNoDom == InitDomOf([n \in Nodes |-> BodyNode], [n \in Nodes |-> FALSE])

\* no executor call, no snapshot
InitNoPage == InitBatchOf(0) /\ InitNoDom /\ InitNoAux

\* a lifecycle event that leaves the process alive or starts it
LifecycleEvent ==
  \/ \E s \in Sockets : SocketOpen(s)
  \/ \E s \in Sockets : SocketClosing(s)
  \/ \E s \in Sockets : SocketClose(s)
  \/ ReconnectTimerFire
  \/ fastKeepalive
  \/ \E name \in {KeepaliveAlarm, ReconnectAlarm} : AlarmFire(name)
  \/ Startup

NextConn ==
  \/ \E s \in Sockets : SocketOpen(s) /\ UNCHANGED <<dispVars, pageVars>>
  \/ \E s \in Sockets : SocketClosing(s) /\ UNCHANGED <<dispVars, pageVars>>
  \/ \E s \in Sockets : SocketClose(s) /\ UNCHANGED <<dispVars, pageVars>>
  \/ ReconnectTimerFire /\ UNCHANGED <<dispVars, pageVars>>
  \/ fastKeepalive /\ UNCHANGED <<dispVars, pageVars>>
  \/ \E name \in {KeepaliveAlarm, ReconnectAlarm} :
       AlarmFire(name) /\ UNCHANGED <<dispVars, pageVars>>
  \/ Startup /\ UNCHANGED <<dispVars, pageVars>>
  \/ Kill /\ UNCHANGED <<dispVars, pageVars>>

\* the module loaded, no command received yet
InitLoaded == InitConn /\ InitIdle /\ InitNoPage

SpecConn == InitLoaded /\ [][NextConn]_vars

\* The dispatch runs start with the channel open: the module was loaded and
\* the bridge accepted the first socket.
InitDispatch ==
  /\ swAlive = TRUE
  /\ \E p \in Loaded({}) :
       LET q == onopen([p EXCEPT !.sock = [p.sock EXCEPT ![p.ws] = "open"]])
       IN /\ ws = q.ws /\ sock = q.sock /\ reconnectDelay = q.reconnectDelay
          /\ reconnectTimer = q.reconnectTimer /\ alarms = q.alarms
          /\ nSched = q.nSched /\ lastSched = q.lastSched
          /\ opened = q.opened /\ failsBefore = q.failsBefore
  /\ prevDelay = MIN_RECONNECT_DELAY
  /\ lastEv = "open"
  /\ InitIdle
  /\ InitNoPage

NextDispatch ==
  \/ \E id \in Cmds, s \in Sockets, c \in CommandsIn :
       Receive(id, s, c) /\ UNCHANGED <<connVars, pageVars>>
  \/ \E id \in Cmds, a \in {1, 2} : HandlerSucceeds(id, a) /\ UNCHANGED <<connVars, pageVars>>
  \/ \E id \in Cmds, a \in {1, 2} : \E msg \in HandlerErrors(cmd[id]) :
       HandlerThrows(id, a, msg) /\ UNCHANGED <<connVars, pageVars>>
  \/ \E id \in Cmds, a \in {1, 2} : TimerFires(id, a) /\ UNCHANGED <<connVars, pageVars>>
  \/ \E id \in Cmds : Retry(id) /\ UNCHANGED <<connVars, pageVars>>
  \/ /\ budget > 0 /\ budget' = budget - 1
     /\ LifecycleEvent
     /\ UNCHANGED <<cmd, pc, run, firstErr, resp, wire, timedOut, calls>>
     /\ UNCHANGED pageVars
  \/ /\ budget > 0 /\ budget' = budget - 1
     /\ Kill /\ KillInFlight
     /\ UNCHANGED pageVars

SpecDispatch == InitDispatch /\ [][NextDispatch]_vars

(***************************************************************************)
(* One call of the executor.                                               *)
(***************************************************************************)
InitBatch ==
  /\ InitConn /\ InitIdle
  /\ InitNoDom /\ InitNoAux
  /\ \E n \in 0..MaxOps : InitBatchOf(n)

NextBatch ==
  \/ \E o \in OpsIn : InputText(o) /\ UNCHANGED <<connVars, dispVars, snapVars, auxVars>>
  \/ \E o \in OpsIn : WaitSleep(o) /\ UNCHANGED <<connVars, dispVars, snapVars, auxVars>>
  \/ WakeUp /\ UNCHANGED <<connVars, dispVars, snapVars, auxVars>>
  \/ \E o \in OpsIn : WaitSelector(o) /\ UNCHANGED <<connVars, dispVars, snapVars, auxVars>>
  \/ PollFound /\ UNCHANGED <<connVars, dispVars, snapVars, auxVars>>
  \/ PollTimeout /\ UNCHANGED <<connVars, dispVars, snapVars, auxVars>>
  \/ \E o \in OpsIn : WaitNothing(o) /\ UNCHANGED <<connVars, dispVars, snapVars, auxVars>>
  \/ \E o \in OpsIn : BeginChecked(o) /\ UNCHANGED <<connVars, dispVars, snapVars, auxVars>>
  \/ \E stableNow, hitNow \in BOOLEAN :
       CheckAttempt(stableNow, hitNow) /\ UNCHANGED <<connVars, dispVars, snapVars, auxVars>>
  \/ \E hitNow \in BOOLEAN : CheckGivesUp(hitNow) /\ UNCHANGED <<connVars, dispVars, snapVars, auxVars>>
  \/ \E o \in OpsIn : Other(o) /\ UNCHANGED <<connVars, dispVars, snapVars, auxVars>>
  \/ \E o \in OpsIn : OptionNotFound(o) /\ UNCHANGED <<connVars, dispVars, snapVars, auxVars>>
  \/ Return /\ UNCHANGED <<connVars, dispVars, snapVars, auxVars>>
  \/ PageMutates /\ UNCHANGED <<connVars, dispVars, snapVars, auxVars>>

SpecBatch == InitBatch /\ [][NextBatch]_vars

(***************************************************************************)
(* Snapshots and look-ups on a document the page keeps changing.           *)
(***************************************************************************)
Shapes == {par \in [Nodes -> Nodes] :
             /\ par[BodyNode] = BodyNode
             /\ \A n \in Nodes : n # BodyNode => par[n] < n}

InitSnap ==
  /\ InitConn /\ InitIdle /\ InitBatchOf(0) /\ InitNoAux
  /\ \E par \in Shapes, sh \in [Nodes -> BOOLEAN] : ~sh[BodyNode] /\ InitDomOf(par, sh)

NextSnap ==
  \/ \E onlyInteractive \in BOOLEAN :
       Snapshot(onlyInteractive) /\ UNCHANGED <<connVars, dispVars, batchVars, auxVars>>
  \/ \E k \in {n - 1 : n \in Nodes} :
       Lookup(k) /\ UNCHANGED <<connVars, dispVars, batchVars, auxVars>>
  \/ \E n \in Nodes, f \in {"visible", "interactive", "attached"} :
       DomChange(n, f) /\ UNCHANGED <<connVars, dispVars, batchVars, auxVars>>
  \/ \E kind \in {"events", "setText"}, el \in Nodes :
       Operate(kind, el) /\ UNCHANGED <<connVars, dispVars, batchVars, auxVars>>
  \/ QueryMarked /\ UNCHANGED <<connVars, dispVars, batchVars, auxVars>>

SpecSnap == InitSnap /\ [][NextSnap]_vars

(***************************************************************************)
(* SpecToggle: check and uncheck calls on one target.                      *)
(***************************************************************************)
InitToggle ==
  /\ InitConn /\ InitIdle /\ InitBatchOf(0) /\ InitNoDom /\ InitNoClick
  /\ InitSerial /\ InitNoLater
  /\ \E kind \in ToggleKinds, checked \in BOOLEAN : InitToggleOf(kind, checked)

NextToggle ==
  \/ \E op \in {"check", "uncheck"} :
       CheckOp(op) /\ UNCHANGED <<connVars, dispVars, batchVars, snapVars, clickVars, serialVars, laterVars>>
  \/ PageToggles /\ UNCHANGED <<connVars, dispVars, batchVars, snapVars, clickVars, serialVars, laterVars>>

SpecToggle == InitToggle /\ [][NextToggle]_vars

(***************************************************************************)
(* SpecClick: one click command through doClick.                           *)
(***************************************************************************)
InitClick ==
  /\ InitConn /\ InitIdle /\ InitBatchOf(0) /\ InitNoDom /\ InitNoToggle
  /\ InitSerial /\ InitNoLater
  /\ \E sel \in {SelPlain, SelObscured} : InitClickOf(sel)

NextClick ==
  \/ ClickResolveFails
       /\ UNCHANGED <<connVars, dispVars, batchVars, snapVars, toggleVars, serialVars, laterVars>>
  \/ \E vis, dis, stable \in BOOLEAN, at \in {"target", "cover", "none"} :
       ClickAttempt(vis, dis, stable, at)
         /\ UNCHANGED <<connVars, dispVars, batchVars, snapVars, toggleVars, serialVars, laterVars>>
  \/ ClickExhausted
       /\ UNCHANGED <<connVars, dispVars, batchVars, snapVars, toggleVars, serialVars, laterVars>>
  \/ \E attaches \in BOOLEAN, sends \in 0..2 :
       ClickFallback(attaches, sends)
         /\ UNCHANGED <<connVars, dispVars, batchVars, snapVars, toggleVars, serialVars, laterVars>>

SpecClick == InitClick /\ [][NextClick]_vars

(***************************************************************************)
(* SpecSerial: batches sent one at a time, each after the reply to the one *)
(* before.                                                                 *)
(***************************************************************************)
InitSerialOnly == InitConn /\ InitIdle /\ InitNoPage

NextSerial ==
  \/ \E id \in Batches, t \in Tabs :
       BatchArrives(id, t)
         /\ UNCHANGED <<connVars, dispVars, batchVars, snapVars, toggleVars, clickVars, laterVars>>
  \/ \E id \in Batches :
       BatchReturns(id)
         /\ UNCHANGED <<connVars, dispVars, batchVars, snapVars, toggleVars, clickVars, laterVars>>
  \/ \E id \in Batches :
       BatchTimesOut(id)
         /\ UNCHANGED <<connVars, dispVars, batchVars, snapVars, toggleVars, clickVars, laterVars>>

SpecSerial == InitSerialOnly /\ [][NextSerial]_vars

\* the variables of the sections above the select-option one
earlierVars == <<connVars, dispVars, batchVars, snapVars, toggleVars, clickVars,
                 serialVars>>

(***************************************************************************)
(* SpecSelect: select-option calls on one <select>.                        *)
(***************************************************************************)
\* the variables a specification of the later sections leaves alone
notSelect == <<earlierVars, waitVars, ctxVars, dlgVars, lastVars>>
notWait == <<earlierVars, selectVars, ctxVars, dlgVars, lastVars>>
notCtx == <<earlierVars, selectVars, waitVars, dlgVars, lastVars>>
notDlg == <<earlierVars, selectVars, waitVars, ctxVars, lastVars>>
beforeLast == <<earlierVars, selectVars, waitVars, ctxVars, dlgVars>>
notLoop == <<beforeLast, openVars, dbgVars, runVars, replyVars, capVars>>
notOpen == <<beforeLast, loopVars, dbgVars, runVars, replyVars, capVars>>
notDbg == <<beforeLast, loopVars, openVars, runVars, replyVars, capVars>>
notRun == <<beforeLast, loopVars, openVars, dbgVars, replyVars, capVars>>
notReply == <<beforeLast, loopVars, openVars, dbgVars, runVars, capVars>>
notCap == <<beforeLast, loopVars, openVars, dbgVars, runVars, replyVars>>

InitEarlier ==
  /\ InitConn /\ InitIdle /\ InitBatchOf(0) /\ InitNoDom
  /\ InitNoToggle /\ InitNoClick /\ InitSerial

InitSelect ==
  /\ InitEarlier /\ InitNoWait /\ InitCtx /\ InitNoDialog /\ InitNoLast
  /\ \E n \in 0..MaxOptions : \E opts \in [1..n -> Options] : InitSelectOf(opts)

NextSelect ==
  \E value \in OptionValues \cup OptionTexts \cup {"none"}, byText \in BOOLEAN :
    SelectOption(value, byText) /\ UNCHANGED notSelect

SpecSelect == InitSelect /\ [][NextSelect]_vars

(***************************************************************************)
(* SpecCtx: commands that name their execution context.                    *)
(***************************************************************************)
InitCtxOnly == InitEarlier /\ InitNoLater

NextCtx ==
  \/ \E params \in CtxCommands : HandleWithContext(params) /\ UNCHANGED notCtx
  \/ \E t \in OpenTabs : TabActivated(t) /\ UNCHANGED notCtx

SpecCtx == InitCtxOnly /\ [][NextCtx]_vars

(***************************************************************************)
(* SpecDialog: dialog commands and page dialogs on one page.               *)
(***************************************************************************)
InitDialog == InitEarlier /\ InitNoLater

NextDialog ==
  \/ \E accept \in BOOLEAN, text \in DialogTexts :
       doDialog(accept, text) /\ UNCHANGED notDlg
  \/ \E type \in DialogTypes : PageDialog(type) /\ UNCHANGED notDlg

SpecDialog == InitDialog /\ [][NextDialog]_vars

(***************************************************************************)
(* LiveLoop: one run of an actionability loop; the timers and the          *)
(* animation frames of the page fire.                                      *)
(***************************************************************************)
InitBeforeLast ==
  InitEarlier /\ InitNoSelect /\ InitNoWait /\ InitCtx /\ InitNoDialog

InitLoop ==
  /\ InitBeforeLast /\ InitNoOpen /\ InitNoDbg /\ InitNoRun /\ InitNoReply
  /\ InitNoCap
  /\ \/ \E op \in CheckedOps : InitLoopOf("ensureActionable", ChecksOf(op))
     \/ InitLoopOf("clickHandler", AllChecks)

NextLoop ==
  \/ LoopSleeps /\ UNCHANGED notLoop
  \/ \E vis, dis, stable, hit \in BOOLEAN, frames \in {FastFrames, SlowFrames} :
       LoopChecks(vis, dis, stable, hit, frames) /\ UNCHANGED notLoop
  \/ \E vis, dis, hit \in BOOLEAN : LoopFails(vis, dis, hit) /\ UNCHANGED notLoop

LoopRuns ==
  \/ LoopSleeps
  \/ \E vis, dis, stable, hit \in BOOLEAN, frames \in {FastFrames, SlowFrames} :
       LoopChecks(vis, dis, stable, hit, frames)
  \/ \E vis, dis, hit \in BOOLEAN : LoopFails(vis, dis, hit)

LiveLoop == InitLoop /\ [][NextLoop]_vars /\ WF_vars(LoopRuns /\ UNCHANGED notLoop)

(***************************************************************************)
(* SpecOpen: click commands on one page whose listeners call window.open.  *)
(***************************************************************************)
InitOpen == InitBeforeLast /\ InitNoLast

NextOpen ==
  \/ \E k \in Clicks : ClickHooks(k) /\ UNCHANGED notOpen
  \/ \E k \in Clicks : ClickReturns(k) /\ UNCHANGED notOpen
  \/ \E k \in Clicks : BatchClickBegins(k) /\ UNCHANGED notOpen
  \/ \E k \in Clicks : BatchClickEnds(k) /\ UNCHANGED notOpen
  \/ \E url \in Urls : PageOpens(url) /\ UNCHANGED notOpen

SpecOpen == InitOpen /\ [][NextOpen]_vars

(***************************************************************************)
(* SpecDbg: eval, upload and click-fallback commands that use the debugger.*)
(***************************************************************************)
InitDbg == InitBeforeLast /\ InitNoLast

NextDbg ==
  \/ \E c \in DbgCmds, action \in DbgActions, tab \in DbgTabs,
        cause \in {"missing", "thrown"} :
       DbgEndsEarly(c, action, tab, cause) /\ UNCHANGED notDbg
  \/ \E c \in DbgCmds, action \in DbgActions, tab \in DbgTabs, devtools \in BOOLEAN :
       DbgAttach(c, action, tab, devtools) /\ UNCHANGED notDbg
  \/ \E c \in DbgCmds, cause \in {"ok", "protocol", "thrown", "notfound", "rejected"} :
       DbgFinishes(c, cause) /\ UNCHANGED notDbg
  \/ \E c \in DbgCmds : DbgTimesOut(c) /\ UNCHANGED notDbg
  \/ \E tab \in DbgTabs : DbgCancelled(tab) /\ UNCHANGED notDbg

SpecDbg == InitDbg /\ [][NextDbg]_vars

(***************************************************************************)
(* SpecRun: one page command from dispatch to its reply.                   *)
(***************************************************************************)
InitRun ==
  /\ InitBeforeLast /\ InitNoLoop /\ InitNoOpen /\ InitNoDbg /\ InitNoReply
  /\ InitNoCap
  /\ \E action \in RunActions : InitRunOf(action)

NextRun ==
  \/ \E ret \in Returns : RunInjects(ret) /\ UNCHANGED notRun
  \/ \E msg \in TabErrors : RunTabFails(msg) /\ UNCHANGED notRun
  \/ RunCaught /\ UNCHANGED notRun

SpecRun == InitRun /\ [][NextRun]_vars

(***************************************************************************)
(* SpecReply: one batch command from dispatch to its reply.                *)
(***************************************************************************)
InitReply ==
  /\ InitBeforeLast /\ InitNoLoop /\ InitNoOpen /\ InitNoDbg /\ InitNoRun
  /\ InitNoCap
  /\ \E n \in 0..MaxBatchLen : \E fail \in 0..n : InitReplyOf(n, fail)

(***************************************************************************)
(* SpecCaps: a client sends commands, the capabilities command among them. *)
(***************************************************************************)
InitCaps == InitBeforeLast /\ InitNoLast

NextCaps == \E action \in ActionNames : CommandSent(action) /\ UNCHANGED notCap

SpecCaps == InitCaps /\ [][NextCaps]_vars

NextReply ==
  \/ BatchEmpty /\ UNCHANGED notReply
  \/ \E ok \in BOOLEAN, msg \in TabErrors :
       BatchResolvesTab(ok, msg) /\ UNCHANGED notReply
  \/ \E ok \in BOOLEAN : BatchInjected(ok) /\ UNCHANGED notReply
  \/ \E list \in BOOLEAN : BatchScriptReturns(list) /\ UNCHANGED notReply
  \/ BatchReplyTimesOut /\ UNCHANGED notReply

SpecReply == InitReply /\ [][NextReply]_vars

(***************************************************************************)
(* LiveWait: one selector wait; the timers of the page fire.               *)
(***************************************************************************)
InitWait ==
  /\ InitEarlier /\ InitNoSelect /\ InitCtx /\ InitNoDialog /\ InitNoLast
  /\ \E match \in BOOLEAN : InitWaitOf(match)

NextWait ==
  \/ \E late \in 0..MaxLate : WaitSample(late) /\ UNCHANGED notWait
  \/ WaitTick /\ UNCHANGED notWait
  \/ WaitPageChanges /\ UNCHANGED notWait

WaitRuns == (\E late \in 0..MaxLate : WaitSample(late)) \/ WaitTick

LiveWait == InitWait /\ [][NextWait]_vars /\ WF_vars(WaitRuns /\ UNCHANGED notWait)

(***************************************************************************)
(* C1 -- Every command received is answered with exactly one reply         *)
(* carrying its id, whatever the handler's outcome and whatever the state  *)
(* of the connection when the handler finishes: once dispatch has returned *)
(* for a command, one reply with its id has been sent, and never two.      *)
(***************************************************************************)
C1_ExactlyOneReply ==
  \A id \in Cmds :
    /\ Len(wire[id]) <= 1
    /\ pc[id] = "done" => Len(wire[id]) = 1

(***************************************************************************)
(* C2 -- In a batch of N operations the results are successes up to the    *)
(* first failure, which is the last result: when operation k is the first  *)
(* to fail the executor returns exactly k results and operations k+1..N    *)
(* are never started; without a failure it returns N results; the number   *)
(* of results never exceeds N.                                             *)
(***************************************************************************)
C2_FirstFailureStops ==
  /\ Len(results) <= nOps
  /\ \A i \in 1..Len(results) : i < Len(results) => results[i].success
  /\ started \subseteq 1..(Len(results) + 1)
  /\ phase = "done" =>
       /\ started = 1..Len(results)
       /\ Len(results) < nOps =>
            (Len(results) >= 1 /\ ~results[Len(results)].success)

\* a batch cut short at its second operation
C2_Witness ==
  /\ phase = "done" /\ Len(results) >= 2 /\ Len(results) < nOps
  /\ results[1].success /\ ~results[Len(results)].success

C3_StaleRefFails ==
  (lookup.made /\ gen >= 2 /\ lookup.stale) =>
    /\ lookup.res = <<>>
    /\ classifyActionError("click", MsgRefNotFound)[1] = "STALE_REF"

(***************************************************************************)
(* C10 -- When a snapshot has returned total = n, the markers present in   *)
(* the document, shadow subtrees included, are exactly e0..e(n-1), each on *)
(* exactly one node and numbered in depth-first order (a node, its light   *)
(* children, then the children of its shadow root); no node of the         *)
(* document keeps a marker of an earlier call; the refs map and the lines  *)
(* list have n entries each.                                               *)
(***************************************************************************)
DocNodes == {n \in Nodes : InDocument(dom, n)}

\* the nodes of the document in depth-first order, nothing pruned
RECURSIVE DepthFirst(_)
DepthFirst(els) ==
  IF els = <<>> THEN <<>>
  ELSE <<Head(els)>> \o DepthFirst(Children(dom, Head(els), FALSE))
                     \o DepthFirst(Children(dom, Head(els), TRUE))
                     \o DepthFirst(Tail(els))

Before(a, b) ==
  \E i, j \in 1..Len(DepthFirst(<<BodyNode>>)) :
    /\ i < j
    /\ DepthFirst(<<BodyNode>>)[i] = a /\ DepthFirst(<<BodyNode>>)[j] = b

C10_MarkersOfTheCall ==
  fresh =>
    /\ \A k \in 0..(lastSnap.total - 1) :
         Cardinality({m \in DocNodes : dom[m].ref = {k}}) = 1
    /\ \A m \in DocNodes : dom[m].ref \subseteq 0..(lastSnap.total - 1)
    /\ \A a, b \in DocNodes :
         Before(a, b) => \A x \in dom[a].ref, y \in dom[b].ref : x < y
    /\ DOMAIN lastSnap.refs = 0..(lastSnap.total - 1)
    /\ Len(lastSnap.lines) = lastSnap.total

\* a second snapshot that minted fewer tokens than the one before it, one
\* of them inside a shadow root
C10_Witness ==
  /\ fresh /\ gen >= 2 /\ lastSnap.total >= 2
  /\ Cardinality(prevTokens) > lastSnap.total
  /\ \E m \in DocNodes : ~InLightDocument(dom, m) /\ dom[m].ref # {}

(***************************************************************************)
(* C11 -- A primitive other than snapshot adds, removes and moves no       *)
(* reference marker: a token of the latest snapshot that resolved to its   *)
(* node before the operation resolves to the same node after it, as long   *)
(* as the node is still in the document.                                   *)
(***************************************************************************)
C11_OpsKeepMarkers ==
  [][lastAct' = "op" =>
       /\ \A n \in Nodes : dom'[n].ref = dom[n].ref
       /\ \A k \in DOMAIN lastSnap.refs :
            (/\ deepQueryOne(dom, <<BodyNode>>, k) = <<lastSnap.refs[k]>>
             /\ InDocument(dom', lastSnap.refs[k]))
            => deepQueryOne(dom', <<BodyNode>>, k) = <<lastSnap.refs[k]>>]_vars

\* after a snapshot, an operation emptied an element with a marked child;
\* the element's own token still resolves to it
C11_Witness ==
  /\ lastAct = "op" /\ gen >= 1
  /\ \E n \in Nodes : ~dom[n].attached /\ dom[n].ref # {}
  /\ \E k \in DOMAIN lastSnap.refs :
       /\ lastSnap.refs[k] # BodyNode
       /\ deepQueryOne(dom, <<BodyNode>>, k) = <<lastSnap.refs[k]>>

(***************************************************************************)
(* C12 -- A snapshot taken right after another one with the same           *)
(* interactiveOnly flag, the document unchanged in between, returns the    *)
(* same total, lines and refs map and leaves the same tokens on the same   *)
(* nodes.                                                                  *)
(***************************************************************************)
C12_SnapshotRepeats ==
  [][(lastAct' = "resnapshot" /\ gen' = gen + 1) =>
       /\ lastSnap' = lastSnap
       /\ \A n \in Nodes : dom'[n].ref = dom[n].ref]_vars

\* a repeated snapshot of a document with tokens inside a shadow root
C12_Witness ==
  /\ lastAct = "resnapshot" /\ lastSnap.total >= 2
  /\ \E m \in DocNodes : ~InLightDocument(dom, m) /\ dom[m].ref # {}

(***************************************************************************)
(* C13 -- check and uncheck are idempotent: of two consecutive calls of    *)
(* the same command on the same target, the page not changing it in        *)
(* between, at most one clicks, the second one changes nothing, and both   *)
(* return `checked` equal to the requested state.                          *)
(***************************************************************************)
C13_CheckIdempotent ==
  \A i \in 1..(Len(tgLog) - 1) :
    (tgLog[i + 1].op = tgLog[i].op /\ ~tgLog[i + 1].dirty) =>
      /\ ~tgLog[i + 1].clicked
      /\ tgLog[i + 1].checked = tgLog[i].checked
      /\ tgLog[i].checked = (tgLog[i].op = "check")

C18_AttachFailureSurfaces ==
  (ckOutcome.done /\ ckAttachFailed) =>
    /\ ~ckOutcome.success
    /\ classifyActionError("click", ckOutcome.error)[1] = "DEBUGGER"

C16_OneBatchPerContext ==
  /\ ~bOverlap
  /\ \A t \in Tabs : Cardinality(RunningIn(t)) <= 1

(***************************************************************************)
(* C17 -- A command that fails because its CSS selector matches nothing,   *)
(* matches nothing after the text filter, or is indexed out of range is    *)
(* replied with code SELECTOR and retriable = false, whatever the text of  *)
(* the selector.  (With one handleAction invocation made, firstErr is the  *)
(* error of the reply.)                                                    *)
(***************************************************************************)
C17_SelectorCode ==
  \A id \in Cmds :
    (/\ pc[id] = "done" /\ calls[id] = 1 /\ ~resp[id].success
     /\ ~cmd[id].sel.ref /\ firstErr[id] \in ResolveErrors(cmd[id].sel)) =>
      resp[id].code = "SELECTOR" /\ ~resp[id].retriable

(***************************************************************************)
(* C19 -- Every failure reply has the properties id, success, error, code, *)
(* retriable and hint, with code one of STALE_REF, TIMEOUT, TAB_CONTEXT,   *)
(* SELECTOR, DEBUGGER and ACTION_FAILED, retriable a boolean and hint not  *)
(* empty; a reply of code SELECTOR or DEBUGGER has retriable = false;      *)
(* every success reply has the properties id, success and data.            *)
(***************************************************************************)
C19_ReplyShape ==
  \A id \in Cmds : \A i \in 1..Len(wire[id]) :
    LET r == wire[id][i]
    IN IF r.success
         THEN r.keys = {"id", "success", "data"}
         ELSE /\ r.keys = {"id", "success", "error", "code", "retriable", "hint"}
              /\ r.code \in {"STALE_REF", "TIMEOUT", "TAB_CONTEXT", "SELECTOR",
                              "DEBUGGER", "ACTION_FAILED"}
              /\ r.retriable \in BOOLEAN
              /\ r.hint # ""
              /\ r.code \in {"SELECTOR", "DEBUGGER"} => ~r.retriable

\* a SELECTOR reply on the wire for a selector with a retryable phrase in it
C19_Witness ==
  \E id \in Cmds :
    /\ Len(wire[id]) >= 1 /\ wire[id][1].code = "SELECTOR"
    /\ cmd[id].sel = SelWords

(***************************************************************************)
(* C20 -- For a CSS selector whose candidates, after the text filter, are  *)
(* n elements, the resolver gives the first one without an index,          *)
(* candidate i for an index 0 <= i < n, candidate n+i for -n <= i < 0, an  *)
(* index-out-of-range error for any other index and a not-found error for  *)
(* n = 0; a failure ends as a failed result of the operation.              *)
(***************************************************************************)
Wanted(f, index) ==
  LET n == Len(f)
  IN IF n = 0
       THEN [ok |-> FALSE, el |-> Body,
             errors |-> {"Element not found", "No element matching"}]
     ELSE IF index = <<>> THEN [ok |-> TRUE, el |-> f[1], errors |-> {}]
     ELSE IF 0 <= index[1] /\ index[1] < n
       THEN [ok |-> TRUE, el |-> f[index[1] + 1], errors |-> {}]
     ELSE IF 0 - n <= index[1] /\ index[1] < 0
       THEN [ok |-> TRUE, el |-> f[n + index[1] + 1], errors |-> {}]
     ELSE [ok |-> FALSE, el |-> Body, errors |-> {"Index out of range"}]

C20_ResolverIndex ==
  [][(/\ started' # started /\ cur'.sel = "css"
      /\ cur'.op \in CheckedOps \cup {"input-text"}) =>
       LET w == Wanted(Filtered(page, Candidates(page), cur'.tf), cur'.index)
       IN IF w.ok
            THEN IF cur'.op = "input-text"
                   THEN /\ touched' = {w.el}
                        /\ Len(results') = Len(results) + 1
                        /\ results'[Len(results')].success
                   ELSE phase' = "checking" /\ checkEl' = w.el
            ELSE /\ Len(results') = Len(results) + 1
                 /\ ~results'[Len(results')].success
                 /\ results'[Len(results')].error \in w.errors
                 /\ phase' = "idle"]_vars

\* a negative index that wrapped to the last of two candidates
C20_Witness ==
  /\ phase = "checking" /\ attempt = 0 /\ cur.index = <<-1>>
  /\ checkEl = 2 /\ page[1].present

(***************************************************************************)
(* C21 -- For a CSS selector with matches in the light DOM and inside      *)
(* shadow subtrees, the resolver's candidates are all of them, the light   *)
(* matches first, so that an index reaches a shadow match and the number   *)
(* of candidates is what `count` gives for the selector.                   *)
(***************************************************************************)
C21_CandidatesAreAllMatches ==
  query.made =>
    /\ query.candidates = deepQueryAll(dom, <<BodyNode>>)
    /\ Len(query.candidates) = query.count

(***************************************************************************)
(* C22 -- A `type` operation whose CSS selector matches visible, enabled   *)
(* form controls succeeds, whatever the text to type and the text the      *)
(* controls hold, and the element it types into is the element that was    *)
(* checked.  (The page of the runs starts with every element present,      *)
(* visible and enabled; the case is a run in which the page has not        *)
(* changed.  The last result is the one of the operation in `cur` when     *)
(* there are as many results as started operations.)                       *)
(***************************************************************************)
C22_TypeIntoControl ==
  (/\ cur.op = "type" /\ cur.sel = "css" /\ mutBudget = MaxMutations
   /\ started # {} /\ Len(results) = Cardinality(started)) =>
    /\ results[Len(results)].success
    /\ \A v \in verified : touched = {v.el}

(***************************************************************************)
(* C23 -- select-option with a value (with byText, a text) that no option  *)
(* has fails with an error that lists every option's value and text,       *)
(* leaves the selection as it was and dispatches no event; with a matching *)
(* option it sets the control's value to that of the first matching option *)
(* in option order.                                                        *)
(***************************************************************************)
C23_SelectOption ==
  soLast.made =>
    LET hits == {i \in 1..Len(soOptions) :
                   IF soLast.byText THEN soOptions[i].text = soLast.value
                                    ELSE soOptions[i].value = soLast.value}
    IN IF hits = {}
         THEN /\ ~soLast.ok /\ soLast.available = soOptions
              /\ soSelected = soLast.before /\ soLast.events = <<>>
         ELSE /\ soLast.ok /\ soSelected # 0
              /\ \E i \in hits : /\ \A j \in hits : i <= j
                                 /\ soOptions[soSelected].value = soOptions[i].value

\* two options with the asked text and different values, chosen by text
C23_Witness ==
  /\ soLast.made /\ soLast.ok /\ soLast.byText /\ Len(soOptions) = 2
  /\ soOptions[1].text = soLast.value /\ soOptions[2].text = soLast.value
  /\ soOptions[1].value # soOptions[2].value

(***************************************************************************)
(* C24 -- A selector wait with timeout T returns {found: true}, before T   *)
(* has elapsed, whenever the selector matches from some instant before T   *)
(* on; it returns the timeout failure only if the selector matched nothing *)
(* during the whole interval.                                              *)
(***************************************************************************)
C24_WaitSeesEveryMatch ==
  wPhase = "done" =>
    /\ (wSince # <<>> /\ wSince[1] < WaitTimeout) =>
         (wResult = "found" /\ wNow < WaitTimeout)
    /\ wResult = "timeout" => ~wEver

(***************************************************************************)
(* C24, as the code has it -- A selector wait with timeout T samples the   *)
(* selector at its start and again after every pause of 100 ms or more,    *)
(* as long as less than T has elapsed at the loop test; it returns         *)
(* {found: true} at the first sample that matches, which is before T has   *)
(* elapsed, and the timeout failure when no sample matched and T has       *)
(* elapsed.  The wait always terminates.                                   *)
(***************************************************************************)
WaitBySamples ==
  /\ \A i \in 1..Len(wSamples) :
       /\ wSamples[i].at < WaitTimeout
       /\ i < Len(wSamples) =>
            (~wSamples[i].hit /\ wSamples[i + 1].at >= wSamples[i].at + POLL_TICKS)
  /\ wResult = "found" =>
       (wPhase = "done" /\ wSamples # <<>> /\ wSamples[Len(wSamples)].hit
        /\ wNow < WaitTimeout)
  /\ wResult = "timeout" =>
       (wPhase = "done" /\ wNow >= WaitTimeout
        /\ \A i \in 1..Len(wSamples) : ~wSamples[i].hit)
  /\ wPhase = "done" => wResult \in {"found", "timeout"}

C24_WaitSamples == []WaitBySamples /\ <>(wPhase = "done")

\* the element appeared after the last sample and before the timeout, and
\* the wait ended with the timeout failure
C24_Witness ==
  /\ wResult = "timeout" /\ wSince # <<>> /\ wSince[1] < WaitTimeout
  /\ Len(wSamples) >= 2

(***************************************************************************)
(* C25 -- Every page-targeting primitive, click included, runs in the tab  *)
(* and the script world of the command's execution context: a command      *)
(* that names a tab, embedded or at the top level, is injected into that   *)
(* tab and no other, and no context key is passed on to the primitive.     *)
(***************************************************************************)
C25_RunsInNamedContext ==
  \A i \in 1..Len(xLog) :
    LET e == xLog[i]
        named == IF e.params.embTab # <<>> THEN e.params.embTab ELSE e.params.topTab
    IN /\ e.passed \cap ContextKeys = {}
       /\ (e.injected /\ named # <<>>) => e.tab = named
       /\ (e.injected /\ e.params.embWorld = <<"MAIN">>) => e.world = "MAIN"

(***************************************************************************)
(* C26 -- The dialog command handles only the next page dialog: right      *)
(* after a page dialog, however many dialog commands preceded it,          *)
(* window.alert, window.confirm and window.prompt are the page's original  *)
(* functions, and a page dialog is intercepted only if a dialog command    *)
(* was given since the previous page dialog.                               *)
(***************************************************************************)
C26_OnlyNextDialog ==
  /\ (dLog # <<>> /\ dArmed = 0) => dWin = Originals
  /\ \A i \in 1..Len(dLog) : dLog[i].intercepted => dLog[i].armed > 0

(***************************************************************************)
(* C27 -- A click that reports success has activated its target exactly    *)
(* once, by the page-level sequence with one native click() or by the      *)
(* debugger fallback, never both; the fallback is entered only after every *)
(* page-level attempt failed with the last reason being `obscured`; and a  *)
(* click that reports failure has delivered no complete activation.        *)
(***************************************************************************)
C27_ActivatesOnce ==
  LET pageActs == Cardinality({i \in 1..Len(ckActs) : ckActs[i] = "click"})
      cdpActs == Cardinality({i \in 1..Len(ckActs) : ckActs[i] = "mouseReleased"})
  IN /\ (ckOutcome.done /\ ckOutcome.success) =>
          /\ pageActs + cdpActs = 1
          /\ ckOutcome.method = "page" => ckActs = PageSequence
          /\ ckOutcome.method = "cdp" => ckActs = <<"mousePressed", "mouseReleased">>
     /\ ckPhase = "fallback" =>
          /\ ckAttempt = CLICK_RETRY_ATTEMPTS
          /\ Includes(ckLastReason, "obscured")
     /\ (ckOutcome.done /\ ~ckOutcome.success) => pageActs + cdpActs = 0

(***************************************************************************)
(* C28 -- In the batch executor the node that receives the synthesized     *)
(* events of a checked interaction is the node that passed the             *)
(* actionability check of that operation, also when the page changed the   *)
(* document while the check was suspended.                                 *)
(***************************************************************************)
C28_ActsOnVerifiedNode ==
  (cur.op \in CheckedOps /\ executed /\ touched # {}) =>
    /\ verified # {}
    /\ touched = {checkEl}

(***************************************************************************)
(* C29 -- At any time at most one socket is CONNECTING or OPEN, and when   *)
(* there is one, the variable ws refers to it: connect() never makes a     *)
(* second live socket and the close event of an older socket never clears  *)
(* the reference to a newer one.                                           *)
(***************************************************************************)
C29_OneLiveSocket ==
  LET live == {s \in Sockets : sock[s] \in {"connecting", "open"}}
  IN /\ Cardinality(live) <= 1
     /\ \A s \in live : ws = s

(***************************************************************************)
(* C30 -- While the channel is closed and the reconnect scheduled at the   *)
(* most recent close is still pending, no socket is opened: the keepalive  *)
(* timer and the keepalive alarm never make connect() open a socket before *)
(* the scheduled reconnect is due.  A step that leaves the reconnect timer *)
(* pending and the alarms as they were is neither the timer nor the backup *)
(* alarm.                                                                  *)
(***************************************************************************)
C30_NoEarlyConnect ==
  [][(reconnectTimer # 0 /\ reconnectTimer' # 0 /\ alarms' = alarms) =>
       ~\E s \in Sockets : sock[s] = "free" /\ sock'[s] = "connecting"]_vars

(***************************************************************************)
(* C31 -- An actionability loop (ensureActionable, clickHandler's loop)    *)
(* always terminates: it makes at most 7 attempts, pausing 0, 20, 100,     *)
(* 100, 500, 500, 500 ms before them; ensureActionable goes on to no       *)
(* further attempt once its timeout is exceeded at the head of the loop;   *)
(* it returns pass only if every check asked for passed in one and the     *)
(* same attempt, and a failure otherwise.                                  *)
(***************************************************************************)
LoopBounded ==
  /\ lAttempt <= 7
  /\ lSlept = SubSeq(<<0, 20, 100, 100, 500, 500, 500>>, 1, lAttempt)
  /\ (lKind = "ensureActionable" /\ lAttempt > 1) => lTopNow <= ACTIONABLE_TIMEOUT_MS
  /\ (lResult.done /\ lResult.pass) =>
       /\ lChecks.visible => lLast.vis
       /\ lChecks.enabled => ~lLast.dis
       /\ lChecks.stable => lLast.stable
       /\ lChecks.receivesEvents => lLast.hit
  /\ (lResult.done /\ ~lResult.pass) => (lLast.failed # "none" /\ lSeen # {})
  /\ lPc = "done" <=> lResult.done

C32_DeepestObservedReason ==
  LET depth(c) == CHOOSE i \in 1..4 : CheckNames[i] = c
  IN (lResult.done /\ ~lResult.pass) =>
       /\ lResult.names \in lSeen
       /\ \A c \in lSeen : depth(c) <= depth(lResult.names)

(***************************************************************************)
(* C33 -- Every window.open(url) call the page makes while a click         *)
(* operation is being handled is intercepted: the page's own window.open   *)
(* does not run for it, and once the clicks it was made under are over a   *)
(* tab for that url has been opened through chrome.tabs.create.            *)
(***************************************************************************)
C33_OpensBecomeTabs ==
  \A i \in 1..Len(oCalls) :
    oCalls[i].during # {} =>
      /\ ~oCalls[i].original
      /\ (\A k \in oCalls[i].during : oClick[k].pc = "done") =>
           \E j \in 1..Len(oTabs) : oTabs[j] = oCalls[i].url

(***************************************************************************)
(* C34 -- Whenever no click command is in flight on the page, window.open  *)
(* is the page's original function, whatever the interleaving of the       *)
(* click commands that ran on it.                                          *)
(***************************************************************************)
C34_OpenRestored == InFlight = {} => oWin = 0

(***************************************************************************)
(* C35 -- A failure reply carries the code DEBUGGER only if the debugger   *)
(* could not be attached for that command: a failure of eval or upload     *)
(* with another cause (a missing parameter, an exception of the evaluated  *)
(* code, a rejected file input) is not classified DEBUGGER.                *)
(***************************************************************************)
C35_DebuggerMeansAttach ==
  \A c \in DbgCmds :
    (gCmd[c].pc = "done" /\ gCmd[c].reply.code = "DEBUGGER") =>
      gCmd[c].cause = "attach"

(***************************************************************************)
(* C37 -- When the handler of a command that attached the debugger to a    *)
(* tab has ended (by return, by an error of a protocol command or by an    *)
(* error of the operation), the debugger is detached from that tab: an     *)
(* attachment in force belongs to a handler still inside its try block,    *)
(* every handler that attached detached once, and a handler whose attach   *)
(* failed, or that never attached, detached nothing.                       *)
(***************************************************************************)
C37_DebuggerDetached ==
  /\ \A t \in DbgTabs :
       gAttached[t] # 0 => (gCmd[gAttached[t]].pc = "attached"
                            /\ gCmd[gAttached[t]].tab = t)
  /\ \A c \in DbgCmds :
       /\ (gCmd[c].pc = "done" /\ gCmd[c].attached) => gCmd[c].detaches = 1
       /\ ~gCmd[c].attached => gCmd[c].detaches = 0

\* two commands on one tab: the second could not attach while the first
\* held the debugger, the first ended with a protocol error
C37_Witness ==
  /\ \A c \in DbgCmds : gCmd[c].pc = "done" /\ gCmd[c].tab = 1
  /\ gCmd[1].attached /\ gCmd[1].cause = "protocol" /\ gCmd[1].detaches = 1
  /\ gCmd[2].cause = "attach" /\ gCmd[2].action = "upload" /\ gCmd[1].action = "eval"
  /\ gCancels = MaxCancels

(***************************************************************************)
(* C36 -- For an action outside the auto-retry set one command has its     *)
(* page operation injected, and so executed, at most once, whatever the    *)
(* page returns.                                                           *)
(***************************************************************************)
C36_InjectedOnce == ~shouldRetryAction(rAction) => Len(rInj) <= 1

C38_BatchReply ==
  yReply.made =>
    /\ yN = 0 => (yReply.success /\ yReply.results = <<>>
                  /\ yTabs = 0 /\ ~yInjected)
    /\ ~yReply.success => yReply.cause \in {"tab", "inject", "noresult"}
    /\ (yReply.success /\ yFail > 0) =>
         /\ Len(yReply.results) = yFail /\ ~yReply.results[yFail]
         /\ \A i \in 1..(yFail - 1) : yReply.results[i]

(***************************************************************************)
(* C38 (amended) -- As stated, with one more cause of a top-level failure: *)
(* the batch did not end within the command timeout.                       *)
(***************************************************************************)
C38_BatchReplyOrTimeout ==
  yReply.made =>
    /\ yN = 0 => (yReply.success /\ yReply.results = <<>>
                  /\ yTabs = 0 /\ ~yInjected)
    /\ ~yReply.success =>
         /\ yReply.cause \in {"tab", "inject", "noresult", "timeout"}
         /\ yReply.cause = "timeout" <=> yReply.code = "TIMEOUT"
    /\ (yReply.success /\ yFail > 0) =>
         /\ Len(yReply.results) = yFail /\ ~yReply.results[yFail]
         /\ \A i \in 1..(yFail - 1) : yReply.results[i]
    /\ (yPc = "done" /\ yInjected /\ yReply.cause = "none") => yReply.success

\* a batch of three whose second operation failed
C38_Witness ==
  /\ yN = 3 /\ yFail = 2 /\ yPc = "done"
  /\ yReply.success /\ yReply.results = <<TRUE, FALSE>>

(***************************************************************************)
(* C40 -- The actions the capabilities command lists are the actions the   *)
(* extension can execute: a command with a listed action never ends with   *)
(* 'Unknown action' or 'Unknown content operation', and every action that  *)
(* handleAction routes is listed.                                          *)
(***************************************************************************)
C40_CapabilitiesAreExecutable ==
  \A i \in DOMAIN kSent :
    /\ (kCaps # {} /\ kSent[i] \in kCaps) => kReplies[i] = "handled"
    /\ (kCaps # {} /\ kReplies[i] # "Unknown action") => kSent[i] \in kCaps

(***************************************************************************)
(* C4 -- A command whose handler had not completed when the time-out timer *)
(* fired is replied, once, as a failure classified TIMEOUT: the reply sent *)
(* for it is that failure, and the later completion of the handler neither *)
(* sends a second reply nor changes the reply.                             *)
(***************************************************************************)
TimeoutResp == [success |-> FALSE, code |-> "TIMEOUT", retriable |-> TRUE]

QueryActions == {"text", "html", "attr", "select", "count", "status",
                 "assert-url", "assert-field-value", "is-visible", "get-value"}

ClaimedRetryActions == {"click", "hover", "type", "snapshot"} \cup QueryActions

C5_RetryPolicy ==
  \A id \in Cmds :
    /\ calls[id] <= 2
    /\ calls[id] = 2 =>
         /\ cmd[id].action \in ClaimedRetryActions
         /\ classifyActionError(cmd[id].action, firstErr[id])[2]
         /\ classifyActionError(cmd[id].action, firstErr[id])[1]
              \notin {"SELECTOR", "DEBUGGER"}

(***************************************************************************)
(* Fairness of the lifecycle: the browser fires a pending alarm, a closing *)
(* handshake ends with the close event, and the bridge accepts connections *)
(* (a socket of ws that is CONNECTING again and again is opened).          *)
(***************************************************************************)
BridgeAccepts == ws # 0 /\ SocketOpen(ws)
HandshakeEnds == \E s \in Sockets : sock[s] = "closing" /\ SocketClose(s)

LiveConn ==
  /\ InitLoaded /\ [][NextConn]_vars
  /\ WF_vars(AlarmFire(KeepaliveAlarm) /\ UNCHANGED <<dispVars, pageVars>>)
  /\ WF_vars(HandshakeEnds /\ UNCHANGED <<dispVars, pageVars>>)
  /\ SF_vars(BridgeAccepts /\ UNCHANGED <<dispVars, pageVars>>)

(***************************************************************************)
(* C7 -- Reconnection survives termination of the worker: whenever the     *)
(* channel is not open, a durable alarm whose firing calls connect() is    *)
(* pending, and (alarms firing, bridge accepting) a channel that is not    *)
(* open leads to a connection attempt and to an open channel.              *)
(***************************************************************************)
ChannelOpen == swAlive /\ WsOpen(ws, sock)
ChannelLive == swAlive /\ WsLive(ws, sock)

C7_SelfHeals ==
  /\ [](~ChannelOpen => KeepaliveAlarm \in alarms)
  /\ (~ChannelLive ~> ChannelLive)
  /\ (~ChannelOpen ~> ChannelOpen)

\* the worker was terminated with the channel down and no reconnect alarm
\* pending: only the periodic alarm can restart it
C7_Witness == ~swAlive /\ ReconnectAlarm \notin alarms /\ KeepaliveAlarm \in alarms

(***************************************************************************)
(* C8 -- Back-off: the delay stays within [1000, 30000]; a close schedules *)
(* the reconnect (timer and backup alarm) with the delay in force and then *)
(* sets the delay to min(2 x delay, 30000); the n-th consecutive close     *)
(* since the last open (or load of the module) schedules with              *)
(* min(1000 x 2^(n-1), 30000): 1000, 2000, 4000, 8000, 16000, 30000, ...   *)
(***************************************************************************)
BackoffAt(n) == Min(MIN_RECONNECT_DELAY * 2 ^ (n - 1), MAX_RECONNECT_DELAY)

C8_Backoff ==
  /\ reconnectDelay >= MIN_RECONNECT_DELAY /\ reconnectDelay <= MAX_RECONNECT_DELAY
  /\ lastEv = "close" =>
       /\ reconnectTimer = prevDelay
       /\ ReconnectAlarm \in alarms
       /\ reconnectDelay = Min(2 * prevDelay, MAX_RECONNECT_DELAY)
       /\ lastSched = prevDelay
  /\ nSched >= 1 => lastSched = BackoffAt(nSched)

\* seven closes in a row: the sixth and the seventh scheduled with the cap
C8_Witness ==
  /\ lastEv = "close" /\ nSched = SchedCap
  /\ lastSched = MAX_RECONNECT_DELAY /\ prevDelay = MAX_RECONNECT_DELAY

(***************************************************************************)
(* C9 -- On open the delay is the minimum, so the first close after an     *)
(* open schedules with 1000 whatever preceded the open; the delay only     *)
(* decreases by an open or by a restart of the process.                    *)
(***************************************************************************)
C9_OpenResets ==
  /\ lastEv = "open" => reconnectDelay = MIN_RECONNECT_DELAY
  /\ (opened /\ nSched = 1) => lastSched = MIN_RECONNECT_DELAY
  /\ reconnectDelay < prevDelay => lastEv \in {"open", "load", "kill"}

\* three closes, an open, then the first close
C9_Witness ==
  /\ opened /\ failsBefore >= 3 /\ nSched = 1 /\ lastEv = "close"
  /\ lastSched = MIN_RECONNECT_DELAY

=============================================================================
